---- MODULE Spec2Model ----
(***************************************************************************)
(* Model of the resilient request layer (src/lib/api-client.ts), the error *)
(* classifier (src/lib/error-utils.ts), the tenant access gate             *)
(* (src/app/api/officers/route.ts, src/app/api/leads/route.ts), the phone  *)
(* normalizer and the session context (src/lib/auth.ts).                   *)
(***************************************************************************)
EXTENDS Integers, Sequences, FiniteSets, TLC

(***************************************************************************)
(* Bounds of the model                                                     *)
(***************************************************************************)
\* largest maxAttempts a caller passes in the general retry specification
MaxAttemptsBound == 3
\* number of apiRequest call slots
MaxCalls == 2
MaxExecs == 2
\* number of officer rows / lead rows the store can hold
MaxOfficers == 3
MaxLeads == 3
\* longest free-text input of the phone normalizer
MaxPhoneLen == 4

(***************************************************************************)
(* JavaScript values                                                       *)
(***************************************************************************)
\* a field left out of a Partial<RetryConfig> / an absent header or param
Omitted == "omitted"
\* `undefined` in a string-valued field
Undef == "undefined"
\* `status?: number` left undefined (every comparison with it is false)
NoStatus == 0

Min(a, b) == IF a <= b THEN a ELSE b
Max(a, b) == IF a >= b THEN a ELSE b

RECURSIVE Pow(_, _)
\* Math.pow for a non-negative integer exponent
Pow(b, e) == IF e <= 0 THEN 1 ELSE b * Pow(b, e - 1)

Range(s) == {s[i] : i \in 1..Len(s)}

(***************************************************************************)
(* api-client.ts: configuration                                            *)
(***************************************************************************)
DEFAULT_RETRY_CONFIG ==
  [maxAttempts |-> 2, baseDelay |-> 1500, maxDelay |-> 30000, backoffMultiplier |-> 2]

RetryFields == {"maxAttempts", "baseDelay", "maxDelay", "backoffMultiplier"}

\* const config = { ...DEFAULT_RETRY_CONFIG, ...retryConfig }
MergeConfig(rc) ==
  [f \in RetryFields |-> IF f \in rc.has THEN rc.val[f] ELSE DEFAULT_RETRY_CONFIG[f]]

calculateDelayUncapped(att, config) ==
  config.baseDelay * Pow(config.backoffMultiplier, att - 1)

calculateDelayOffByOne(att, config) ==
  Min(config.baseDelay * Pow(config.backoffMultiplier, att), config.maxDelay)

\* calculateDelay(attempt, config)
calculateDelay(att, config) ==
  Min(config.baseDelay * Pow(config.backoffMultiplier, att - 1), config.maxDelay)

\* per-attempt abort timer: setTimeout(() => controller.abort(), 10000)
FetchTimeoutMs == 10000
\* in-flight diagnostic threshold: inFlightMap[url] > 10
InFlightWarnThreshold == 10

(***************************************************************************)
(* api-client.ts: error values                                             *)
(***************************************************************************)
\* values a rejected fetch / body read can carry
TypeErr   == [cls |-> "TypeError",    name |-> "TypeError",   code |-> Undef]
AbortErr  == [cls |-> "DOMException", name |-> "AbortError",  code |-> Undef]
CodeErr   == [cls |-> "Error",        name |-> "Error",       code |-> "NETWORK_ERROR"]
OtherErr  == [cls |-> "Error",        name |-> "Error",       code |-> Undef]
SyntaxErr == [cls |-> "SyntaxError",  name |-> "SyntaxError", code |-> Undef]

\* message texts
MsgRequestFailed == "Request failed"
MsgServer        == "server error text"
MsgStatusText    == "status text"
MsgNetwork       == "Network connection failed. Please check your internet connection."
MsgUnexpected    == "An unexpected error occurred."

\* new ApiClientError({message, status, code, isNetworkError, isRetryable})
ApiClientError(message, status, code, isNetworkError, isRetryable) ==
  [cls |-> "ApiClientError", name |-> "ApiClientError", message |-> message,
   status |-> status, code |-> code,
   isNetworkError |-> isNetworkError, isRetryable |-> isRetryable]

\* `let lastError: ApiClientError;` before any assignment
NoError == [cls |-> Undef]

isRetryableErrorNo429(status) ==
  IF status = NoStatus THEN TRUE ELSE status >= 500 \/ status = 408

isRetryableErrorClientRetry(status) ==
  IF status = NoStatus THEN TRUE ELSE status >= 409

isRetryableErrorConflict(status) ==
  IF status = NoStatus THEN TRUE
  ELSE status >= 500 \/ status = 429 \/ status = 408 \/ status = 409

\* isRetryableError({status}) ; NoStatus stands for a value without a status
isRetryableError(status) ==
  IF status = NoStatus THEN TRUE
  ELSE \/ status >= 500
       \/ status = 429
       \/ status = 408


(***************************************************************************)
(* State                                                                   *)
(***************************************************************************)
VARIABLES
  \* api-client.ts, one entry per apiRequest call slot
  pc,          \* "idle" | "fetching" | "sleeping" | "reading" | "returned" | "failed"
  reqUrl,      \* url argument
  reqConfig,   \* retryConfig argument
  cfg,         \* merged config
  attempt,     \* loop counter
  lastError,   \* lastError
  result,      \* what the returned promise settled with
  sent,        \* x-dealer-id header of every fetch invocation, in order
  outcomes,    \* outcome of every fetch invocation, in order
  sleeps,      \* argument of every sleep(), in order
  timer,       \* delay of the abort timer armed by the latest fetch, 0 once cleared or fired
  \* api-client.ts, module state and environment
  inFlightMap, \* inFlightMap
  warnings,    \* number of console.warn diagnostics emitted
  nodeEnv,     \* process.env.NODE_ENV
  pendingElsewhere, \* per url, calls begun by other callers that stay in flight
  storedDealer,\* localStorage item 'dealer'
  \* error classification of one error value
  clsInput, clsLoop, clsView,
  \* server side: environment, tables and the last gate response
  supabaseConfigured, officers, leads, gateReq, gateResp,
  created,     \* per officer id and lead id ever stored: the owner it was inserted with
  \* auth.ts: one use of the phone normalizer
  phoneSub,    \* the subscriber number the input writes down (<<>> for free text)
  phoneShape,  \* the shape it is written in
  phoneIn,     \* argument of normalizePhoneNumber
  phoneOut,    \* its result, {} before the call
  phoneTwice,  \* result of normalizing the result, {} before that call
  phoneAlt,    \* results of the officer login's copy and of the variant copy, {} before
  \* localStorage item 'currentOfficer': no officer ({}) or one officer id
  currentOfficer,
  \* the dealers table and the latest loginDealer call
  dealers,     \* rows of the dealers table
  loginCall,   \* its identifier, the copy of auth.ts that ran, the store's fault
  lookups,     \* the queries it sent to the dealers table, in order
  loginResult, \* what its promise settled with
  \* use-api.ts: one useApi hook and the execute calls made on it
  state,       \* the hook's state: data, loading, error, lastUpdated
  hookOptions, \* options: what onSuccess and onError do when called
  execPc,      \* per execute call: "idle" | "pending" | "returned" | "threw"
  execOutcome, \* per execute call: how its apiCall settled
  execReturn   \* per execute call: the value it returned, {} for null

retryVars == <<pc, reqUrl, reqConfig, cfg, attempt, lastError, result, sent, outcomes,
               sleeps, timer, inFlightMap, warnings, nodeEnv, pendingElsewhere,
               storedDealer>>
clsVars   == <<clsInput, clsLoop, clsView>>
gateVars  == <<supabaseConfigured, officers, leads, gateReq, gateResp, created>>
authVars  == <<phoneSub, phoneShape, phoneIn, phoneOut, phoneTwice, phoneAlt, currentOfficer>>
loginVars == <<dealers, loginCall, lookups, loginResult>>
hookVars  == <<state, hookOptions, execPc, execOutcome, execReturn>>
vars      == <<retryVars, clsVars, gateVars, authVars, loginVars, hookVars>>

Calls   == 1..MaxCalls
Tenants == {"A", "B"}
Urls    == {"/api/officers", "/api/leads"}

(***************************************************************************)
(* api-client.ts: getCurrentDealerId                                       *)
(***************************************************************************)
\* contents of localStorage['dealer']: absent, a dealer object, an object
\* without id, text that JSON.parse rejects
StoredDealerValues == {Omitted, "no-id", "corrupt"} \cup Tenants

getCurrentDealerIdRaw(stored) == IF stored = "corrupt" THEN Omitted ELSE stored

\* dealer?.id || null, null on a parse error
getCurrentDealerId(stored) == IF stored \in Tenants THEN stored ELSE Omitted

(***************************************************************************)
(* api-client.ts: apiRequest                                               *)
(***************************************************************************)
\* a Partial<RetryConfig>: `has` names the fields the caller supplies
PartialConfigs ==
  [has : {{}, {"maxAttempts"}, {"baseDelay", "maxDelay", "backoffMultiplier"}, RetryFields},
   val : [maxAttempts : 0..MaxAttemptsBound, baseDelay : {1000}, maxDelay : {1500},
          backoffMultiplier : {2}]]

\* config of Scenario 3 (maxDelay left at its default)
Scenario3Config ==
  [has |-> {"maxAttempts", "baseDelay", "backoffMultiplier"},
   val |-> [maxAttempts |-> 4, baseDelay |-> 1000, maxDelay |-> 1500,
            backoffMultiplier |-> 2]]

\* HTTP statuses the general retry specification draws responses from
OkStatuses    == {200}
ErrorStatuses == {400, 404, 418, 408, 429, 503}
\* how the body of a response reads
OkBodies  == {"json", "text", "jsonSyntaxError", "jsonTypeError", "textTypeError"}
ErrBodies == {"jsonError", "jsonNoFields", "notJson"}
Responses ==
  [status : OkStatuses, body : OkBodies] \cup [status : ErrorStatuses, body : ErrBodies]
\* values fetch itself rejects with (AbortError comes from the timer only)
FetchRejections == {TypeErr, CodeErr, OtherErr}

\* errorData?.error || errorData?.message || 'Request failed', statusText fallback
ErrorMessage(body) ==
  CASE body = "jsonError"           -> MsgServer
    [] body = "jsonNoFields"        -> MsgRequestFailed
    [] body = "notJson"             -> MsgStatusText

\* errorData?.code
ErrorCode(body) == IF body = "jsonError" THEN "CODE" ELSE Undef

\* lines 164-170: the ApiClientError of a non-ok response
HttpError(status, body) ==
  ApiClientError(ErrorMessage(body), status, ErrorCode(body), FALSE,
                 isRetryableError(status))

IsNetworkErrorTypeOnly(err) == err.cls = "TypeError"

\* lines 192-195
IsNetworkError(err) ==
  \/ err.cls = "TypeError"
  \/ err.name = "AbortError"
  \/ err.code = "NETWORK_ERROR"

\* lines 189-204: the catch block's lastError
CatchError(err) ==
  IF err.cls = "ApiClientError" THEN err
  ELSE ApiClientError(IF IsNetworkError(err) THEN MsgNetwork ELSE MsgUnexpected,
                      NoStatus, Undef, IsNetworkError(err), IsNetworkError(err))

ShouldThrowIgnoreFlag(err, att, config) == att = config.maxAttempts

\* lines 173 and 207: !isRetryable || attempt === config.maxAttempts
ShouldThrow(err, att, config) == ~err.isRetryable \/ att = config.maxAttempts

LoopContinuesOffByOne(att, config) == att <= config.maxAttempts + 1

\* for (...; attempt <= config.maxAttempts; ...)
LoopContinues(att, config) == att <= config.maxAttempts

\* line 213: if (attempt < config.maxAttempts)
SleepNeeded(att, config) == att < config.maxAttempts

\* finally: inFlightMap[url] = Math.max(0, (inFlightMap[url] || 1) - 1)
Finally(u) ==
  inFlightMap' = [inFlightMap EXCEPT ![u] =
                    Max(0, (IF inFlightMap[u] = 0 THEN 1 ELSE inFlightMap[u]) - 1)]

\* line 133: setTimeout(() => controller.abort(), 10000), one per attempt
ArmTimer(att) == FetchTimeoutMs

SendFetchCachedHeader(c, att) ==
  /\ sent' = [sent EXCEPT ![c] = Append(@, IF att = 1 THEN getCurrentDealerId(storedDealer)
                                            ELSE sent[c][1])]
  /\ timer' = [timer EXCEPT ![c] = ArmTimer(att)]
  /\ pc' = [pc EXCEPT ![c] = "fetching"]

\* lines 132-147: attempt number att sends its fetch, carrying the header read
\* at send time
SendFetch(c, att) ==
  /\ sent' = [sent EXCEPT ![c] = Append(@, getCurrentDealerId(storedDealer))]
  /\ timer' = [timer EXCEPT ![c] = ArmTimer(att)]
  /\ pc' = [pc EXCEPT ![c] = "fetching"]

\* the call settles: the promise rejects with err
Reject(c, err) ==
  /\ pc' = [pc EXCEPT ![c] = "failed"]
  /\ result' = [result EXCEPT ![c] = [kind |-> "threw", error |-> err]]
  /\ Finally(reqUrl[c])

AfterFailureKeepFirst(c, err) ==
  LET e == IF lastError[c] = NoError THEN err ELSE lastError[c] IN
  /\ lastError' = [lastError EXCEPT ![c] = e]
  /\ IF ShouldThrow(err, attempt[c], cfg[c])
       THEN /\ Reject(c, e)
            /\ UNCHANGED sleeps
       ELSE IF SleepNeeded(attempt[c], cfg[c])
         THEN /\ pc' = [pc EXCEPT ![c] = "sleeping"]
              /\ sleeps' = [sleeps EXCEPT ![c] = Append(@, calculateDelay(attempt[c], cfg[c]))]
              /\ UNCHANGED <<result, inFlightMap>>
         ELSE /\ Reject(c, e)
              /\ UNCHANGED sleeps

\* a failed attempt whose error is err (an ApiClientError): throw, or sleep
AfterFailure(c, err) ==
  /\ lastError' = [lastError EXCEPT ![c] = err]
  /\ IF ShouldThrow(err, attempt[c], cfg[c])
       THEN /\ Reject(c, err)
            /\ UNCHANGED sleeps
       ELSE IF SleepNeeded(attempt[c], cfg[c])
         THEN /\ pc' = [pc EXCEPT ![c] = "sleeping"]
              /\ sleeps' = [sleeps EXCEPT ![c] = Append(@, calculateDelay(attempt[c], cfg[c]))]
              /\ UNCHANGED <<result, inFlightMap>>
         ELSE \* no sleep: attempt++ ends the loop, `throw lastError!`
              /\ Reject(c, err)
              /\ UNCHANGED sleeps

ApiRequestThrottled(c, u, rc) ==
  /\ pc[c] = "idle"
  /\ reqUrl' = [reqUrl EXCEPT ![c] = u]
  /\ reqConfig' = [reqConfig EXCEPT ![c] = rc]
  /\ cfg' = [cfg EXCEPT ![c] = MergeConfig(rc)]
  /\ attempt' = [attempt EXCEPT ![c] = 1]
  /\ warnings' = IF nodeEnv # "production" /\ inFlightMap[u] + 1 > InFlightWarnThreshold
                   THEN warnings + 1 ELSE warnings
  /\ IF LoopContinues(1, MergeConfig(rc)) /\ inFlightMap[u] + 1 <= InFlightWarnThreshold
       THEN /\ inFlightMap' = [inFlightMap EXCEPT ![u] = @ + 1]
            /\ SendFetch(c, 1)
            /\ UNCHANGED result
       ELSE /\ pc' = [pc EXCEPT ![c] = "failed"]
            /\ result' = [result EXCEPT ![c] = [kind |-> "threw", error |-> NoError]]
            /\ inFlightMap' = [inFlightMap EXCEPT ![u] =
                                 Max(0, (IF @ + 1 = 0 THEN 1 ELSE @ + 1) - 1)]
            /\ UNCHANGED <<sent, timer>>
  /\ UNCHANGED <<lastError, outcomes, sleeps, nodeEnv, pendingElsewhere, storedDealer>>

\* apiRequest(url, options, retryConfig) up to its first await
ApiRequest(c, u, rc) ==
  /\ pc[c] = "idle"
  /\ reqUrl' = [reqUrl EXCEPT ![c] = u]
  /\ reqConfig' = [reqConfig EXCEPT ![c] = rc]
  /\ cfg' = [cfg EXCEPT ![c] = MergeConfig(rc)]
  /\ attempt' = [attempt EXCEPT ![c] = 1]
  /\ warnings' = IF nodeEnv # "production" /\ inFlightMap[u] + 1 > InFlightWarnThreshold
                   THEN warnings + 1 ELSE warnings
  /\ IF LoopContinues(1, MergeConfig(rc))
       THEN /\ inFlightMap' = [inFlightMap EXCEPT ![u] = @ + 1]
            /\ SendFetch(c, 1)
            /\ UNCHANGED result
       ELSE \* the loop body never runs: throw lastError! with lastError unassigned
            /\ pc' = [pc EXCEPT ![c] = "failed"]
            /\ result' = [result EXCEPT ![c] = [kind |-> "threw", error |-> NoError]]
            /\ inFlightMap' = [inFlightMap EXCEPT ![u] =
                                 Max(0, (IF @ + 1 = 0 THEN 1 ELSE @ + 1) - 1)]
            /\ UNCHANGED <<sent, timer>>
  /\ UNCHANGED <<lastError, outcomes, sleeps, nodeEnv, pendingElsewhere, storedDealer>>

\* fetch resolves with a response; its body is read
FetchResolves(c, r) ==
  /\ pc[c] = "fetching"
  /\ timer[c] # 0
  /\ timer' = [timer EXCEPT ![c] = 0]   \* clearTimeout(timeoutId)
  /\ outcomes' = [outcomes EXCEPT ![c] = Append(@, [kind |-> "response", status |-> r.status,
                  body |-> IF r.status \in OkStatuses THEN r.body ELSE Undef])]
  /\ IF r.status \notin OkStatuses
       THEN AfterFailure(c, HttpError(r.status, r.body))
       ELSE CASE r.body = "json" ->
                   \* return await response.json()
                   /\ pc' = [pc EXCEPT ![c] = "returned"]
                   /\ result' = [result EXCEPT ![c] =
                                   [kind |-> "body", body |-> r.body, attempt |-> attempt[c]]]
                   /\ Finally(reqUrl[c])
                   /\ UNCHANGED <<lastError, sleeps>>
              [] r.body = "jsonSyntaxError" -> AfterFailure(c, CatchError(SyntaxErr))
              [] r.body = "jsonTypeError"   -> AfterFailure(c, CatchError(TypeErr))
              [] r.body \in {"text", "textTypeError"} ->
                   \* `return response.text()` is not awaited: the function
                   \* body is left, the finally block runs, and the call's
                   \* promise settles when the body has been read
                   /\ pc' = [pc EXCEPT ![c] = "reading"]
                   /\ Finally(reqUrl[c])
                   /\ UNCHANGED <<result, lastError, sleeps>>
  /\ UNCHANGED <<reqUrl, reqConfig, cfg, attempt, sent, warnings, nodeEnv, pendingElsewhere, storedDealer>>

\* the promise of response.text() settles, and with it the call's promise:
\* with the text, or with the raw error of the failed read
TextSettles(c) ==
  /\ pc[c] = "reading"
  /\ LET last == outcomes[c][Len(outcomes[c])] IN
       IF last.body = "text"
         THEN /\ pc' = [pc EXCEPT ![c] = "returned"]
              /\ result' = [result EXCEPT ![c] =
                              [kind |-> "body", body |-> last.body, attempt |-> attempt[c]]]
         ELSE /\ pc' = [pc EXCEPT ![c] = "failed"]
              /\ result' = [result EXCEPT ![c] = [kind |-> "threw", error |-> TypeErr]]
  /\ UNCHANGED <<reqUrl, reqConfig, cfg, attempt, lastError, sent, outcomes, sleeps, timer,
                 inFlightMap, warnings, nodeEnv, pendingElsewhere, storedDealer>>

\* fetch rejects (no response); the attempt's timer is left armed
FetchRejects(c, err) ==
  /\ pc[c] = "fetching"
  /\ outcomes' = [outcomes EXCEPT ![c] = Append(@, [kind |-> "rejected", status |-> NoStatus, body |-> err.name])]
  /\ AfterFailure(c, CatchError(err))
  /\ UNCHANGED <<reqUrl, reqConfig, cfg, attempt, sent, timer, warnings, nodeEnv, pendingElsewhere, storedDealer>>

\* the attempt's 10 s timer fires: controller.abort() rejects the fetch
TimeoutFires(c) ==
  /\ pc[c] = "fetching"
  /\ timer[c] # 0
  /\ timer' = [timer EXCEPT ![c] = 0]
  /\ outcomes' = [outcomes EXCEPT ![c] = Append(@, [kind |-> "timeout", status |-> NoStatus, body |-> AbortErr.name])]
  /\ AfterFailure(c, CatchError(AbortErr))
  /\ UNCHANGED <<reqUrl, reqConfig, cfg, attempt, sent, warnings, nodeEnv, pendingElsewhere, storedDealer>>

\* sleep(delay) resolves: attempt++, loop test, next fetch
SleepEnds(c) ==
  /\ pc[c] = "sleeping"
  /\ attempt' = [attempt EXCEPT ![c] = @ + 1]
  /\ IF LoopContinues(attempt[c] + 1, cfg[c])
       THEN /\ SendFetch(c, attempt[c] + 1)
            /\ UNCHANGED <<result, inFlightMap>>
       ELSE /\ Reject(c, lastError[c])
            /\ UNCHANGED <<sent, timer>>
  /\ UNCHANGED <<reqUrl, reqConfig, cfg, lastError, outcomes, sleeps, warnings, nodeEnv, pendingElsewhere, storedDealer>>


(***************************************************************************)
(* error-utils.ts: getUserFriendlyError                                    *)
(***************************************************************************)
View(title, message, actionText, retryable, severity) ==
  [title |-> title, message |-> message, actionText |-> actionText,
   isRetryable |-> retryable, severity |-> severity]

\* values that are not an ApiClientError: Error instances and non-Error values
ForeignErrors == {TypeErr, AbortErr, CodeErr, OtherErr, SyntaxErr}
NonErrorValues == {NoError, [cls |-> "string"]}

IsErrorInstance(e) == e.cls \in {"ApiClientError", "TypeError", "DOMException", "Error", "SyntaxError"}

\* getUserFriendlyError(error)
getUserFriendlyError(error) ==
  IF error.cls = "ApiClientError" THEN
    IF error.isNetworkError THEN
      View("Connection Problem",
           "Unable to connect to the server. Please check your internet connection and try again.",
           "Retry", TRUE, "error")
    ELSE CASE error.status = 400 ->
                View("Invalid Data",
                     "The information provided is invalid. Please check your entries and try again.",
                     "Fix and Retry", FALSE, "error")
           [] error.status = 401 ->
                View("Authentication Required", "You need to sign in to access this feature.",
                     "Sign In", FALSE, "warning")
           [] error.status = 403 ->
                View("Access Denied", "You don't have permission to perform this action.",
                     "Contact Support", FALSE, "error")
           [] error.status = 404 ->
                View("Not Found", "The requested information could not be found.",
                     "Go Back", FALSE, "error")
           [] error.status = 409 ->
                View("Conflict",
                     "This data conflicts with existing information. Please check and try again.",
                     "Review and Retry", FALSE, "warning")
           [] error.status = 429 ->
                View("Too Many Requests",
                     "You're making requests too quickly. Please wait a moment and try again.",
                     "Try Again Later", TRUE, "warning")
           [] error.status = 500 ->
                View("Server Error",
                     "Something went wrong on our end. Please try again in a few moments.",
                     "Retry", TRUE, "error")
           [] error.status \in {502, 503, 504} ->
                View("Service Unavailable",
                     "The service is temporarily unavailable. Please try again later.",
                     "Retry", TRUE, "error")
           [] OTHER ->
                \* error.message is never empty for an error apiRequest builds
                View("Request Failed", error.message,
                     IF error.isRetryable THEN "Retry" ELSE "OK", error.isRetryable, "error")
  ELSE IF IsErrorInstance(error) THEN
    View("Unexpected Error", "Something unexpected happened. Please try again.",
         "Retry", TRUE, "error")
  ELSE
    View("Unknown Error", "An unknown error occurred. Please refresh the page and try again.",
         "Refresh Page", FALSE, "error")

\* statuses of non-ok responses (response.ok is false outside 200..299)
MinStatus == 100
MaxStatus == 599
NonOkStatuses == (MinStatus..MaxStatus) \ (200..299)

\* a non-ok response is turned into an ApiClientError and presented
ClassifyResponse(status, body) ==
  /\ clsInput' = HttpError(status, body)
  /\ clsLoop' = HttpError(status, body).isRetryable
  /\ clsView' = getUserFriendlyError(HttpError(status, body))

\* a rejected fetch / failed body read goes through the catch block and is presented
ClassifyThrown(err) ==
  /\ clsInput' = CatchError(err)
  /\ clsLoop' = CatchError(err).isRetryable
  /\ clsView' = getUserFriendlyError(CatchError(err))

\* a value that never went through apiRequest's catch block is presented as it is;
\* the retry loop would classify it by its catch block
ClassifyForeign(v) ==
  /\ clsInput' = v
  /\ clsLoop' = IF IsErrorInstance(v) THEN CatchError(v).isRetryable ELSE FALSE
  /\ clsView' = getUserFriendlyError(v)

(***************************************************************************)
(* Tenant access gate: officers/route.ts GET and leads/route.ts GET        *)
(***************************************************************************)
\* characters of officer names and phones, and String.prototype.toLowerCase
LowerChar(ch) == CASE ch = "A" -> "a" [] ch = "N" -> "n" [] ch = "B" -> "b" [] OTHER -> ch
toLowerCase(str) == [i \in 1..Len(str) |-> LowerChar(str[i])]

\* String.prototype.includes
includes(str, sub) ==
  \E i \in 0..(Len(str) - Len(sub)) : \A j \in 1..Len(sub) : str[i + j] = sub[j]

OfficerNames  == << <<"A", "n">>, <<"a", "b">>, <<"B", "o", "b">> >>
OfficerPhones == << <<"+", "1">>, <<"+", "2">> >>
OfficerIds == 1..MaxOfficers
LeadIds    == 1..MaxLeads

\* the row an officer id denotes when it is stored under dealer d
OfficerRow(i, d) ==
  [id |-> i, dealer_id |-> d,
   name |-> OfficerNames[((i - 1) % Len(OfficerNames)) + 1],
   phone |-> OfficerPhones[((i - 1) % Len(OfficerPhones)) + 1]]

\* the row a lead id denotes; its officer reference is fixed by the id
LeadRow(j) == [id |-> j, officer_id |-> ((j - 1) % MaxOfficers) + 1]

\* officers/route.ts lines 20-23: the development fallback
MockOfficers ==
  {[id |-> 1, dealer_id |-> "mock-dealer", name |-> <<"J", "o", "h", "n">>, phone |-> <<"+", "4">>],
   [id |-> 2, dealer_id |-> "mock-dealer", name |-> <<"J", "a", "n", "e">>, phone |-> <<"+", "5">>]}

\* values of the x-dealer-id header and of the dealer_id parameter
IdValues     == {Omitted, "", "A", "B"}
PublicValues == {Omitted, "true", "false"}
\* values of the search parameter: absent ({}) or one string
SearchValues == {{}, {<<>>}, {<<"a">>}, {<<"A", "N">>}, {<<"+", "2">>}}
\* values of the officer_id parameter: absent ({}) or one id, possibly unknown
OfficerParamValues == {{}} \cup {{i} : i \in 1..(MaxOfficers + 1)}

OfficerRequests ==
  [route : {"officers"}, header : IdValues, dealer_id : IdValues, public : PublicValues,
   search : SearchValues, officer_id : {{}}]
LeadRequests ==
  [route : {"leads"}, header : IdValues, dealer_id : IdValues, public : PublicValues,
   search : {{}}, officer_id : OfficerParamValues]

\* JavaScript truthiness of a header / parameter value
Truthy(v) == v # Omitted /\ v # ""

IsPublicUnlessHeader(req) == req.public = "true" /\ req.header \notin {"A", "B"}

\* searchParams.get('public') === 'true'
IsPublic(req) == req.public = "true"

DealerIdOfParamFirst(req) == IF Truthy(req.dealer_id) THEN req.dealer_id ELSE req.header

\* getDealerFromRequest(request) || searchParams.get('dealer_id')
DealerIdOf(req) == IF Truthy(req.header) THEN req.header ELSE req.dealer_id

\* officers/route.ts line 46: query.eq('dealer_id', dealerId)
OfficersOfDealer(d) == {o \in officers : o.dealer_id = d}

DealerOfficerIdsUnfiltered(d) == {o.id : o \in officers}

\* leads/route.ts lines 46-49: ids of the officers of one dealer
DealerOfficerIds(d) == {o.id : o \in {x \in officers : x.dealer_id = d}}

\* officers/route.ts lines 67-74
SearchFilter(rows, search) ==
  IF search = {} \/ search = {<<>>} THEN rows
  ELSE {o \in rows : \E q \in search :
          \/ includes(toLowerCase(o.name), toLowerCase(q))
          \/ includes(toLowerCase(o.phone), toLowerCase(q))}

\* leads/route.ts lines 64-66: query.eq('officer_id', officerId)
OfficerParamFilter(rows, param) ==
  IF param = {} THEN rows ELSE {l \in rows : l.officer_id \in param}

Ok(rows) == [status |-> 200, rows |-> rows, code |-> Undef]
Fail(status, code) == [status |-> status, rows |-> {}, code |-> code]

NoDealerOfficersPublic(d) == Ok(officers)

\* officers/route.ts lines 47-50: not public and no dealer id
NoDealerOfficers(d) == Ok({})

\* leads/route.ts lines 58-61: not public and no dealer id
NoDealerLeads(d) == Ok({})

\* officers/route.ts GET; queryFails: the store answers the query with an error
GetOfficers(req, queryFails) ==
  /\ req.route = "officers"
  /\ gateResp.status = NoStatus
  /\ gateReq' = req
  /\ gateResp' =
       IF ~supabaseConfigured THEN Ok(MockOfficers)
       ELSE IF ~IsPublic(req) /\ ~Truthy(DealerIdOf(req)) THEN NoDealerOfficers(DealerIdOf(req))
       ELSE IF queryFails THEN Fail(500, "OFFICERS_FETCH_ERROR")
       ELSE Ok(SearchFilter(IF IsPublic(req) THEN officers
                            ELSE OfficersOfDealer(DealerIdOf(req)),
                            req.search))
  /\ UNCHANGED <<supabaseConfigured, officers, leads, created>>

\* leads/route.ts GET; lookupFails / queryFails: the officer-id lookup / the
\* leads query is answered with an error.  Row order (created_at descending)
\* is not represented.
GetLeads(req, lookupFails, queryFails) ==
  /\ req.route = "leads"
  /\ gateResp.status = NoStatus
  /\ gateReq' = req
  /\ gateResp' =
       IF ~supabaseConfigured THEN Ok({})
       ELSE IF ~IsPublic(req) /\ Truthy(DealerIdOf(req)) THEN
         \* data is null when the lookup fails; its error is not inspected
         IF lookupFails \/ DealerOfficerIds(DealerIdOf(req)) = {} THEN Ok({})
         ELSE IF queryFails THEN Fail(500, "LEADS_FETCH_ERROR")
         ELSE Ok(OfficerParamFilter(
                   {l \in leads : l.officer_id \in DealerOfficerIds(DealerIdOf(req))},
                   req.officer_id))
       ELSE IF ~IsPublic(req) THEN NoDealerLeads(DealerIdOf(req))
       ELSE IF queryFails THEN Fail(500, "LEADS_FETCH_ERROR")
       ELSE Ok(OfficerParamFilter(leads, req.officer_id))
  /\ UNCHANGED <<supabaseConfigured, officers, leads, created>>

\* leads/route.ts POST: the request carries a lead whose officer_id is absent
\* ({}) or one id; the x-dealer-id header may accompany it
LeadPosts ==
  [route : {"leads:POST"}, header : IdValues, dealer_id : {Omitted}, public : {Omitted},
   search : {{}}, officer_id : OfficerParamValues]

\* what the store can do while a POST is handled: nothing special, the body
\* is not JSON, the officer lookup errors, the insert errors
PostFaults == {"none", "badJson", "lookup", "insert"}

LookupOfficerOfDealer(req) ==
  {o \in officers : o.id \in req.officer_id /\ o.dealer_id = req.header}

\* lines 103-107: from('officers').select('dealer_id').eq('id', leadData.officer_id)
LookupOfficer(req) == {o \in officers : o.id \in req.officer_id}

\* ids the leads table has not used yet for a lead of the posted officer
FreeLeadIds(req) ==
  {j \in LeadIds : /\ LeadRow(j) \notin leads
                    /\ created.lead[j] = {}
                    /\ LeadRow(j).officer_id \in req.officer_id}

\* the row the insert stores for the posted lead (the id is generated)
NewLead(req) ==
  LeadRow(CHOOSE j \in FreeLeadIds(req) : \A k \in FreeLeadIds(req) : j <= k)

\* leads/route.ts POST
PostLead(req, fault) ==
  /\ req.route = "leads:POST"
  /\ gateResp.status = NoStatus
  /\ LookupOfficer(req) # {} => FreeLeadIds(req) # {}
  /\ gateReq' = [route |-> req.route, header |-> req.header, dealer_id |-> req.dealer_id,
                 public |-> req.public, search |-> req.search,
                 officer_id |-> req.officer_id, fault |-> fault]
  /\ IF fault = "badJson"
       THEN /\ gateResp' = Fail(500, "LEAD_CREATE_UNEXPECTED_ERROR")
            /\ UNCHANGED <<leads, created>>
       ELSE IF fault = "lookup" \/ ~supabaseConfigured \/ LookupOfficer(req) = {}
         THEN \* officerError || !officer
              /\ gateResp' = Fail(400, "INVALID_OFFICER")
              /\ UNCHANGED <<leads, created>>
         ELSE IF fault = "insert"
           THEN /\ gateResp' = Fail(500, "LEAD_CREATE_ERROR")
                /\ UNCHANGED <<leads, created>>
           ELSE /\ leads' = leads \cup {NewLead(req)}
                /\ created' = [created EXCEPT !.lead[NewLead(req).id] =
                                  {NewLead(req).officer_id}]
                /\ gateResp' = Ok({NewLead(req)})
  /\ UNCHANGED <<supabaseConfigured, officers>>

(***************************************************************************)
(* officers/route.ts POST, officers/[id]/route.ts PUT and DELETE           *)
(***************************************************************************)
\* a dealer id no row of the dealers table has
UnknownDealer == "C"
\* name and phone a create or update request carries
WriteNames  == {<<"Z", "o">>}
WritePhones == {<<"+", "9">>}

\* JSON bodies of a create or update request; dealer_id may be absent, name
\* a stored dealer or name none
OfficerBodies ==
  [name : WriteNames, phone : WritePhones,
   dealer_id : Tenants \cup {Omitted, UnknownDealer}]

\* update requests whose body carries a dealer_id besides name and phone
PutBodies == {b \in OfficerBodies : b.dealer_id \in Tenants}

\* what the store can do while a write is handled
WriteFaults == {"none", "badJson", "store"}

\* ids gen_random_uuid() has not produced yet
FreeOfficerIds == {i \in OfficerIds : created.officer[i] = {}}

\* dealer_id UUID REFERENCES dealers(id), nullable
ReferencesDealer(d) == d = Omitted \/ \E row \in dealers : row.id = d

\* officers/route.ts POST: insert([{ name, phone, dealer_id }])
PostOfficer(body, fault) ==
  /\ gateResp.status = NoStatus
  /\ FreeOfficerIds # {}
  /\ gateReq' = [route |-> "officers:POST", id |-> {}, body |-> body, fault |-> fault]
  /\ LET new == CHOOSE i \in FreeOfficerIds : \A k \in FreeOfficerIds : i <= k
         row == [id |-> new, dealer_id |-> body.dealer_id, name |-> body.name,
                 phone |-> body.phone]
     IN IF fault = "badJson"
          THEN /\ gateResp' = Fail(500, "OFFICER_CREATE_UNEXPECTED_ERROR")
               /\ UNCHANGED <<officers, created>>
          ELSE IF fault = "store" \/ ~supabaseConfigured \/ ~ReferencesDealer(body.dealer_id)
            THEN /\ gateResp' = Fail(500, "OFFICER_CREATE_ERROR")
                 /\ UNCHANGED <<officers, created>>
            ELSE /\ officers' = officers \cup {row}
                 /\ created' = [created EXCEPT !.officer[new] = {body.dealer_id}]
                 /\ gateResp' = Ok({row})
  /\ UNCHANGED <<supabaseConfigured, leads>>

PutOfficerReassigning(id, body, fault) ==
  /\ gateResp.status = NoStatus
  /\ gateReq' = [route |-> "officers:PUT", id |-> {id}, body |-> body, fault |-> fault]
  /\ LET target == {o \in officers : o.id = id}
         updated == {[o EXCEPT !.name = body.name, !.phone = body.phone,
                               !.dealer_id = body.dealer_id] : o \in target}
     IN IF fault # "none" \/ ~supabaseConfigured \/ target = {}
          THEN /\ gateResp' = Fail(500, Undef)
               /\ UNCHANGED officers
          ELSE /\ officers' = (officers \ target) \cup updated
               /\ gateResp' = Ok(updated)
  /\ UNCHANGED <<supabaseConfigured, leads, created>>

\* officers/[id]/route.ts PUT: update({ name, phone, updated_at }).eq('id', id),
\* whatever else the body carries; .single() fails when no row matches
PutOfficer(id, body, fault) ==
  /\ gateResp.status = NoStatus
  /\ gateReq' = [route |-> "officers:PUT", id |-> {id}, body |-> body, fault |-> fault]
  /\ LET target == {o \in officers : o.id = id}
         updated == {[o EXCEPT !.name = body.name, !.phone = body.phone] : o \in target}
     IN IF fault # "none" \/ ~supabaseConfigured \/ target = {}
          THEN /\ gateResp' = Fail(500, Undef)
               /\ UNCHANGED officers
          ELSE /\ officers' = (officers \ target) \cup updated
               /\ gateResp' = Ok(updated)
  /\ UNCHANGED <<supabaseConfigured, leads, created>>

\* officers/[id]/route.ts DELETE: delete().eq('id', id); the officer's leads
\* go with it (leads.officer_id ... ON DELETE CASCADE)
DeleteOfficer(id, fault) ==
  /\ gateResp.status = NoStatus
  /\ gateReq' = [route |-> "officers:DELETE", id |-> {id}, body |-> Undef, fault |-> fault]
  /\ IF fault # "none" \/ ~supabaseConfigured
       THEN /\ gateResp' = Fail(500, Undef)
            /\ UNCHANGED <<officers, leads>>
       ELSE /\ officers' = {o \in officers : o.id # id}
            /\ leads' = {l \in leads : l.officer_id # id}
            /\ gateResp' = Ok({})
  /\ UNCHANGED <<supabaseConfigured, created>>

\* the response leaves the server; the next request can be handled
GateDeliver ==
  /\ gateResp.status # NoStatus
  /\ gateReq' = [route |-> Undef]
  /\ gateResp' = [status |-> NoStatus]
  /\ UNCHANGED <<supabaseConfigured, officers, leads, created>>

(***************************************************************************)
(* auth.ts: normalizePhoneNumber                                           *)
(***************************************************************************)
\* a string is the sequence of its characters
DigitChars == {"0", "1", "2", "3", "4", "5", "6", "7", "8", "9"}

\* phone.replace(/\D/g, '')
StripNonDigits(str) == SelectSeq(str, LAMBDA ch : ch \in DigitChars)

\* String.prototype.startsWith
startsWith(str, prefix) ==
  /\ Len(str) >= Len(prefix)
  /\ \A i \in 1..Len(prefix) : str[i] = prefix[i]

\* String.prototype.substring(from), from counted from 0
substring(str, from) == SubSeq(str, from + 1, Len(str))

CountryCode == <<"2", "5", "5">>
\* cleaned.length === 9
SubscriberLen == 9

normalizePhoneNumberKeepAll(phone) ==
  LET cleaned == phone IN
  <<"+">> \o (IF startsWith(cleaned, <<"0">>) THEN CountryCode \o substring(cleaned, 1)
             ELSE IF startsWith(cleaned, CountryCode) THEN cleaned
             ELSE IF Len(cleaned) = SubscriberLen THEN CountryCode \o cleaned
             ELSE CountryCode \o cleaned)

normalizePhoneNumberAlwaysPrefix(phone) ==
  LET cleaned == StripNonDigits(phone) IN
  <<"+">> \o (IF startsWith(cleaned, <<"0">>) THEN CountryCode \o substring(cleaned, 1)
             ELSE CountryCode \o cleaned)

normalizePhoneNumberLengthFirst(phone) ==
  LET cleaned == StripNonDigits(phone) IN
  <<"+">> \o (IF Len(cleaned) = SubscriberLen THEN CountryCode \o cleaned
             ELSE IF startsWith(cleaned, <<"0">>) THEN CountryCode \o substring(cleaned, 1)
             ELSE IF startsWith(cleaned, CountryCode) THEN cleaned
             ELSE CountryCode \o cleaned)

\* normalizePhoneNumber(phone)
normalizePhoneNumber(phone) ==
  LET cleaned == StripNonDigits(phone) IN
  <<"+">> \o (IF startsWith(cleaned, <<"0">>) THEN CountryCode \o substring(cleaned, 1)
             ELSE IF startsWith(cleaned, CountryCode) THEN cleaned
             ELSE IF Len(cleaned) = SubscriberLen THEN CountryCode \o cleaned
             ELSE CountryCode \o cleaned)

\* the four supported ways of writing one subscriber number
PhoneShapes == {"local0", "bare", "countryCode", "international"}
WriteAs(sub, shape) ==
  CASE shape = "local0"        -> <<"0">> \o sub
    [] shape = "bare"          -> sub
    [] shape = "countryCode"   -> CountryCode \o sub
    [] shape = "international" -> <<"+">> \o CountryCode \o sub

\* 9-digit subscriber numbers: every choice of the three leading digits from
\* LeadDigits followed by one of the tails, and the numbers of the test script
LeadDigits == {"0", "2", "5", "7"}
Tails == {<<"2", "7", "6", "4", "4", "4">>, <<"1", "2", "3", "4", "5", "6">>}
TestSubscribers ==
  {<<"7", "1", "4", "2", "7", "6", "4", "4", "4">>,
   <<"7", "5", "4", "1", "2", "3", "4", "5", "6">>}
Subscribers ==
  {lead \o tail : lead \in [1..3 -> LeadDigits], tail \in Tails} \cup TestSubscribers

\* free text: every string of at most MaxPhoneLen characters, and "abc123"
PhoneChars == {"0", "2", "5", "9", "a", "A", "+", " "}
FreeTexts ==
  UNION {[1..n -> PhoneChars] : n \in 0..MaxPhoneLen} \cup {<<"a", "b", "c", "1", "2", "3">>}

\* a caller passes a phone number to the normalizer
NormalizePhone ==
  /\ phoneOut = {}
  /\ phoneOut' = {normalizePhoneNumber(phoneIn)}
  /\ UNCHANGED <<phoneSub, phoneShape, phoneIn, phoneTwice, phoneAlt, currentOfficer>>

\* the result is normalized once more
NormalizeAgain ==
  /\ phoneOut # {} /\ phoneTwice = {}
  /\ phoneTwice' = {normalizePhoneNumber(o) : o \in phoneOut}
  /\ UNCHANGED <<phoneSub, phoneShape, phoneIn, phoneOut, phoneAlt, currentOfficer>>

(***************************************************************************)
(* Session context: auth.ts (key 'dealer') and the officer login of the    *)
(* home page (key 'currentOfficer')                                        *)
(***************************************************************************)
\* the dealers table: id, canonical phone, e-mail address
DealerRows ==
  {[id |-> "A", phone |-> <<"+", "2", "5", "5", "7", "1", "4", "2", "7", "6", "4", "4", "4">>,
    email |-> <<"a", "@", "x">>],
   [id |-> "B", phone |-> <<"+", "2", "5", "5", "7", "5", "4", "1", "2", "3", "4", "5", "6">>,
    email |-> <<"b", "1", "@", "x">>]}

\* what a user types into the login form: the phones of the table in the four
\* shapes, an unknown phone, e-mail addresses of the table as stored, in upper
\* case and with a blank at the end, an unknown e-mail address
LoginIdentifiers ==
  {WriteAs(sub, shape) : sub \in TestSubscribers, shape \in PhoneShapes}
  \cup {<<"0", "7", "0", "0">>, <<"(", "0", "7", "1", "4", ")", " ", "2", "7", "6", "-", "4", "4", "4">>}
  \cup {<<"a", "@", "x">>, <<"A", "@", "x">>, <<"a", "@", "x", " ">>, <<"b", "1", "@", "x">>,
        <<"z", "@", "x">>}

\* the two copies of auth.ts
AuthCopies == {"auth", "variant"}

\* String.prototype.trim (blanks are the only white space of the model)
RECURSIVE trim(_)
trim(str) ==
  IF str = <<>> THEN str
  ELSE IF Head(str) = " " THEN trim(Tail(str))
  ELSE IF str[Len(str)] = " " THEN trim(SubSeq(str, 1, Len(str) - 1))
  ELSE str

\* /[\d\+\-\s\(\)]/.test(identifier)
LooksLikePhone(str) == \E i \in 1..Len(str) : str[i] \in DigitChars \cup {"+", "-", " ", "(", ")"}

\* the text the copy works on: the variant lower-cases and trims it first
CleanIdentifier(identifier, impl) ==
  IF impl = "variant" THEN trim(toLowerCase(identifier)) ELSE identifier

\* the query loginDealer sends: the column and the key it is compared with
LoginQuery(identifier, impl) ==
  IF LooksLikePhone(CleanIdentifier(identifier, impl))
    THEN [column |-> "phone", key |-> normalizePhoneNumber(CleanIdentifier(identifier, impl))]
    ELSE [column |-> "email", key |-> trim(toLowerCase(identifier))]

\* rows the query matches
LoginMatches(q) == {d \in dealers : d[q.column] = q.key}

\* the message of the Error loginDealer throws when it stores nothing
LoginError(q, impl, dbError) ==
  IF impl = "variant" /\ q.column = "email" /\ dbError THEN "Database error"
  ELSE "Dealer not found"

LoginDealerRetrying(identifier, impl, dbError) ==
  LET q == LoginQuery(identifier, impl)
      found == IF dbError THEN {} ELSE LoginMatches(q) IN
  /\ loginCall' = [identifier |-> identifier, impl |-> impl, dbError |-> dbError]
  /\ lookups' = IF found = {} THEN <<q, q>> ELSE <<q>>
  /\ loginResult' = IF found = {} THEN [kind |-> "error", message |-> LoginError(q, impl, dbError)]
                    ELSE [kind |-> "dealer", id |-> CHOOSE t \in {d.id : d \in found} : TRUE]
  /\ storedDealer' = IF found = {} THEN Omitted
                     ELSE CHOOSE t \in {d.id : d \in found} : TRUE
  /\ UNCHANGED <<pc, reqUrl, reqConfig, cfg, attempt, lastError, result, sent, outcomes,
                 sleeps, timer, inFlightMap, warnings, nodeEnv, pendingElsewhere>>
  /\ UNCHANGED <<authVars, dealers>>

\* loginDealer(identifier): one query is awaited, then the row is stored or
\* an Error is thrown; dbError: the store answers the query with an error
LoginDealer(identifier, impl, dbError) ==
  LET q == LoginQuery(identifier, impl)
      found == IF dbError THEN {} ELSE LoginMatches(q) IN
  /\ loginCall' = [identifier |-> identifier, impl |-> impl, dbError |-> dbError]
  /\ lookups' = <<q>>
  /\ loginResult' = IF found = {} THEN [kind |-> "error", message |-> LoginError(q, impl, dbError)]
                    ELSE [kind |-> "dealer", id |-> CHOOSE t \in {d.id : d \in found} : TRUE]
  /\ storedDealer' = IF found = {} THEN storedDealer   \* nothing is written
                     ELSE CHOOSE t \in {d.id : d \in found} : TRUE
  /\ UNCHANGED <<pc, reqUrl, reqConfig, cfg, attempt, lastError, result, sent, outcomes,
                 sleeps, timer, inFlightMap, warnings, nodeEnv, pendingElsewhere>>
  /\ UNCHANGED <<authVars, dealers>>

LogoutDealerClearsAll ==
  /\ storedDealer' = Omitted
  /\ currentOfficer' = {}
  /\ UNCHANGED <<pc, reqUrl, reqConfig, cfg, attempt, lastError, result, sent, outcomes,
                 sleeps, timer, inFlightMap, warnings, nodeEnv, pendingElsewhere>>
  /\ UNCHANGED <<phoneSub, phoneShape, phoneIn, phoneOut, phoneTwice, phoneAlt>>

\* logoutDealer(): localStorage.removeItem('dealer')
LogoutDealer ==
  /\ storedDealer' = Omitted
  /\ UNCHANGED <<pc, reqUrl, reqConfig, cfg, attempt, lastError, result, sent, outcomes,
                 sleeps, timer, inFlightMap, warnings, nodeEnv, pendingElsewhere>>
  /\ UNCHANGED authVars

\* what the officer search of the login form yields: one officer, or none ({})
OfficerSearchResults == {{}} \cup {{i} : i \in OfficerIds}

\* OfficerLogin.handleLogin: setCurrentOfficer(officer) when one is found
OfficerLogin(found) ==
  /\ currentOfficer' = IF found = {} THEN currentOfficer ELSE found
  /\ UNCHANGED <<phoneSub, phoneShape, phoneIn, phoneOut, phoneTwice, phoneAlt>>
  /\ UNCHANGED retryVars

\* Home.handleLogout: clearCurrentOfficer()
OfficerLogout ==
  /\ currentOfficer' = {}
  /\ UNCHANGED <<phoneSub, phoneShape, phoneIn, phoneOut, phoneTwice, phoneAlt>>
  /\ UNCHANGED retryVars

(***************************************************************************)
(* The other copies of the phone canonicalization                          *)
(***************************************************************************)
officerLoginNormalizeNoZeroRule(phone) ==
  LET normalizedPhone == StripNonDigits(phone) IN
  <<"+">> \o (IF startsWith(normalizedPhone, CountryCode) THEN normalizedPhone
             ELSE CountryCode \o normalizedPhone)

\* types/index.ts lines 168-184: the canonicalization inlined in
\* OfficerLogin.handleLogin
officerLoginNormalize(phone) ==
  LET normalizedPhone == StripNonDigits(phone) IN
  <<"+">> \o (IF startsWith(normalizedPhone, <<"0">>)
               THEN CountryCode \o substring(normalizedPhone, 1)
             ELSE IF startsWith(normalizedPhone, CountryCode) THEN normalizedPhone
             ELSE IF Len(normalizedPhone) = SubscriberLen THEN CountryCode \o normalizedPhone
             ELSE CountryCode \o normalizedPhone)

\* the same text goes through the officer login's copy and through the
\* variant copy of auth.ts, which lower-cases and trims before normalizing
NormalizeElsewhere ==
  /\ phoneAlt = {}
  /\ phoneAlt' = {[officer |-> officerLoginNormalize(phoneIn),
                   variant |-> normalizePhoneNumber(CleanIdentifier(phoneIn, "variant"))]}
  /\ UNCHANGED <<phoneSub, phoneShape, phoneIn, phoneOut, phoneTwice, currentOfficer>>
  /\ UNCHANGED loginVars

(***************************************************************************)
(* Specification of one apiRequest call                                    *)
(***************************************************************************)
(***************************************************************************)
(* use-api.ts: useApi                                                      *)
(***************************************************************************)
Execs == 1..MaxExecs

\* values an apiCall resolves with
ApiResults == {"d1", "d2"}
\* values an apiCall rejects with: classified errors of apiRequest, the raw
\* error of a failed text read, the unassigned lastError
ApiFailures == {HttpError(404, "jsonError"), CatchError(TypeErr), TypeErr, NoError}

\* what a callback of the options does when it is called
CallbackKinds == {"none", "returns", "throws"}

\* lines 24-29 and 84-89; null is the empty set
InitialState == [data |-> {}, loading |-> FALSE, error |-> {}, lastUpdated |-> {}]

\* lines 54-72: the catch block; the value of the call is null unless the
\* onError callback throws out of it
Catch(e, prev, error) ==
  /\ state' = [prev EXCEPT !.loading = FALSE, !.error = {getUserFriendlyError(error)}]
  /\ IF hookOptions.onError = "throws"
       THEN /\ execPc' = [execPc EXCEPT ![e] = "threw"]
            /\ UNCHANGED execReturn
       ELSE /\ execPc' = [execPc EXCEPT ![e] = "returned"]
            /\ execReturn' = [execReturn EXCEPT ![e] = {}]

\* lines 35-42: execute(apiCall) up to its await
Execute(e) ==
  /\ execPc[e] = "idle"
  /\ state' = [state EXCEPT !.loading = TRUE, !.error = {}]
  /\ execPc' = [execPc EXCEPT ![e] = "pending"]
  /\ UNCHANGED <<hookOptions, execOutcome, execReturn>>

\* lines 42-53: apiCall resolves with data
ApiCallResolves(e, data) ==
  /\ execPc[e] = "pending"
  /\ execOutcome' = [execOutcome EXCEPT ![e] = [kind |-> "resolved", value |-> data]]
  /\ LET stored == [state EXCEPT !.data = {data}, !.loading = FALSE, !.error = {},
                                  !.lastUpdated = {"date"}]
     IN IF hookOptions.onSuccess = "throws"
          THEN \* the throw of options.onSuccess lands in the catch block
               Catch(e, stored, OtherErr)
          ELSE /\ state' = stored
               /\ execPc' = [execPc EXCEPT ![e] = "returned"]
               /\ execReturn' = [execReturn EXCEPT ![e] = {data}]
  /\ UNCHANGED hookOptions

\* lines 54-72: apiCall rejects with error
ApiCallRejects(e, error) ==
  /\ execPc[e] = "pending"
  /\ execOutcome' = [execOutcome EXCEPT ![e] = [kind |-> "rejected", value |-> error]]
  /\ Catch(e, state, error)
  /\ UNCHANGED hookOptions

\* lines 83-90: reset()
Reset ==
  /\ state # InitialState
  /\ state' = InitialState
  /\ UNCHANGED <<hookOptions, execPc, execOutcome, execReturn>>

\* the hook as useState leaves it, no execute call made
InitUseApi ==
  /\ state = InitialState
  /\ execPc = [e \in Execs |-> "idle"]
  /\ execOutcome = [e \in Execs |-> [kind |-> "none", value |-> Undef]]
  /\ execReturn = [e \in Execs |-> {}]

\* a hook without callbacks that is not used
InitHookIdle ==
  /\ InitUseApi
  /\ hookOptions = [onSuccess |-> "none", onError |-> "none"]

\* no apiRequest call has begun
InitCalls ==
  /\ pc = [c \in Calls |-> "idle"]
  /\ reqUrl = [c \in Calls |-> Undef]
  /\ reqConfig = [c \in Calls |-> [has |-> {}, val |-> DEFAULT_RETRY_CONFIG]]
  /\ cfg = [c \in Calls |-> DEFAULT_RETRY_CONFIG]
  /\ attempt = [c \in Calls |-> 0]
  /\ lastError = [c \in Calls |-> NoError]
  /\ result = [c \in Calls |-> [kind |-> "none"]]
  /\ sent = [c \in Calls |-> <<>>]
  /\ outcomes = [c \in Calls |-> <<>>]
  /\ sleeps = [c \in Calls |-> <<>>]
  /\ timer = [c \in Calls |-> 0]

InitRetry ==
  /\ InitCalls
  /\ inFlightMap = [u \in Urls |-> 0]
  /\ warnings = 0
  /\ pendingElsewhere = [u \in Urls |-> 0]

InitCls ==
  /\ clsInput = NoError
  /\ clsLoop = FALSE
  /\ clsView = [title |-> Undef]

\* the owners the rows of the tables were inserted with
CreatedWith(offs, lds) ==
  [officer |-> [i \in OfficerIds |-> {o.dealer_id : o \in {x \in offs : x.id = i}}],
   lead    |-> [j \in LeadIds |-> {l.officer_id : l \in {x \in lds : x.id = j}}]]

InitGateEmpty ==
  /\ supabaseConfigured = TRUE
  /\ officers = {}
  /\ leads = {}
  /\ gateReq = [route |-> Undef]
  /\ gateResp = [status |-> NoStatus]
  /\ created = CreatedWith({}, {})

\* no phone number entered, no officer session
\* the dealers table as it is seeded, no login attempted
InitLogin ==
  /\ dealers = DealerRows
  /\ loginCall = [identifier |-> <<>>, impl |-> Undef, dbError |-> FALSE]
  /\ lookups = <<>>
  /\ loginResult = [kind |-> "none"]

InitAuthIdle ==
  /\ InitLogin
  /\ phoneSub = <<>>
  /\ phoneShape = "free"
  /\ phoneIn = <<>>
  /\ phoneOut = {}
  /\ phoneTwice = {}
  /\ phoneAlt = {}
  /\ currentOfficer = {}

Init ==
  /\ InitRetry
  /\ nodeEnv = "development"
  /\ storedDealer \in StoredDealerValues
  /\ InitCls
  /\ InitHookIdle
  /\ InitGateEmpty
  /\ InitAuthIdle

\* the one call slot the single-call specification uses
FirstCall == CHOOSE c \in Calls : \A d \in Calls : c <= d

Next ==
  \/ \E u \in Urls, rc \in PartialConfigs \cup {Scenario3Config} :
       ApiRequest(FirstCall, u, rc) /\ UNCHANGED <<clsVars, gateVars, authVars, loginVars, hookVars>>
  \/ \E r \in Responses : FetchResolves(FirstCall, r) /\ UNCHANGED <<clsVars, gateVars, authVars, loginVars, hookVars>>
  \/ \E e \in FetchRejections : FetchRejects(FirstCall, e) /\ UNCHANGED <<clsVars, gateVars, authVars, loginVars, hookVars>>
  \/ TextSettles(FirstCall) /\ UNCHANGED <<clsVars, gateVars, authVars, loginVars, hookVars>>
  \/ TimeoutFires(FirstCall) /\ UNCHANGED <<clsVars, gateVars, authVars, loginVars, hookVars>>
  \/ SleepEnds(FirstCall) /\ UNCHANGED <<clsVars, gateVars, authVars, loginVars, hookVars>>

Spec == Init /\ [][Next]_vars


(***************************************************************************)
(* Specification of the error classification                               *)
(***************************************************************************)
InitClassify ==
  /\ InitRetry
  /\ nodeEnv = "development"
  /\ storedDealer = Omitted
  /\ InitCls
  /\ InitHookIdle
  /\ InitGateEmpty
  /\ InitAuthIdle

NextClassify ==
  \/ \E s \in NonOkStatuses, b \in ErrBodies :
       ClassifyResponse(s, b) /\ UNCHANGED <<retryVars, gateVars, authVars, loginVars, hookVars>>
  \/ \E e \in ForeignErrors : ClassifyThrown(e) /\ UNCHANGED <<retryVars, gateVars, authVars, loginVars, hookVars>>
  \/ \E v \in ForeignErrors \cup NonErrorValues :
       ClassifyForeign(v) /\ UNCHANGED <<retryVars, gateVars, authVars, loginVars, hookVars>>

SpecClassify == InitClassify /\ [][NextClassify]_vars


(***************************************************************************)
(* Specification of the tenant access gate                                 *)
(***************************************************************************)
\* tables the store can hold: each officer id absent or owned by one dealer,
\* each lead id absent or present with its officer; without a configured
\* store there are none
InitGate ==
  /\ InitRetry
  /\ nodeEnv = "development"
  /\ storedDealer = Omitted
  /\ InitCls
  /\ InitHookIdle
  /\ supabaseConfigured \in BOOLEAN
  /\ \E own \in [OfficerIds -> Tenants \cup {Omitted}], present \in SUBSET LeadIds :
       \* leads.officer_id REFERENCES officers(id)
       /\ \A j \in present : own[LeadRow(j).officer_id] # Omitted
       /\ officers = IF supabaseConfigured
                       THEN {OfficerRow(i, own[i]) : i \in {k \in OfficerIds : own[k] # Omitted}}
                       ELSE {}
       /\ leads = IF supabaseConfigured THEN {LeadRow(j) : j \in present} ELSE {}
  /\ created = CreatedWith(officers, leads)
  /\ gateReq = [route |-> Undef]
  /\ gateResp = [status |-> NoStatus]
  /\ InitAuthIdle

NextGate ==
  \/ /\ gateResp.status = NoStatus
     /\ \E req \in OfficerRequests, f \in BOOLEAN :
          GetOfficers(req, f) /\ UNCHANGED <<retryVars, clsVars, authVars, loginVars, hookVars>>
  \/ /\ gateResp.status = NoStatus
     /\ \E req \in LeadRequests, f1 \in BOOLEAN, f2 \in BOOLEAN :
          GetLeads(req, f1, f2) /\ UNCHANGED <<retryVars, clsVars, authVars, loginVars, hookVars>>
  \/ /\ gateResp.status = NoStatus
     /\ \E req \in LeadPosts, fault \in PostFaults :
          PostLead(req, fault) /\ UNCHANGED <<retryVars, clsVars, authVars, loginVars, hookVars>>
  \/ GateDeliver /\ UNCHANGED <<retryVars, clsVars, authVars, loginVars, hookVars>>

SpecGate == InitGate /\ [][NextGate]_vars


(***************************************************************************)
(* Properties of apiRequest (specification Spec)                           *)
(***************************************************************************)
Done(c) == pc[c] \in {"returned", "failed"}

\* a successful attempt: an ok response whose body was read
IsSuccess(o) == o.kind = "response" /\ o.status \in OkStatuses /\ o.body \in {"json", "text"}

\* an ok response whose text body failed to read: the raw error escapes the
\* try block unclassified
IsUnclassified(o) == o.kind = "response" /\ o.status \in OkStatuses /\ o.body = "textTypeError"

Statuses(log) == [i \in 1..Len(log) |-> log[i].status]

\* C1: one apiRequest call issues at most config.maxAttempts fetch
\* invocations, whatever the outcomes of its attempts, and a successful
\* attempt is the last fetch the call issues.
C1_RetryBound ==
  \A c \in Calls :
    pc[c] # "idle" =>
      /\ Len(sent[c]) <= cfg[c].maxAttempts
      /\ Len(outcomes[c]) <= Len(sent[c])
      /\ \A i \in 1..Len(outcomes[c]) :
           IsSuccess(outcomes[c][i]) =>
             (Len(sent[c]) = i /\ pc[c] \in {"reading", "returned"})

\* a call that used up a budget of three or more attempts
C1_Witness ==
  \E c \in Calls :
    /\ pc[c] = "failed"
    /\ cfg[c].maxAttempts >= 3
    /\ Len(sent[c]) = cfg[c].maxAttempts
    /\ Len(outcomes[c]) = cfg[c].maxAttempts

\* the parts of C5 that do not count sleeps against calls: a sleep only
\* follows a retryable failure of an attempt before the last one, a classified
\* failure that ends the call is propagated as it was classified, and a call
\* whose first attempt succeeds returns that body without any sleep
C5_Immediate(c) ==
  /\ pc[c] = "sleeping" =>
       /\ lastError[c].isRetryable
       /\ attempt[c] < cfg[c].maxAttempts
       /\ Len(sleeps[c]) = Len(outcomes[c])
  /\ (pc[c] = "failed" /\ Len(outcomes[c]) >= 1
        /\ ~IsUnclassified(outcomes[c][Len(outcomes[c])])) =>
       /\ result[c] = [kind |-> "threw", error |-> lastError[c]]
       /\ ~lastError[c].isRetryable \/ Len(outcomes[c]) = cfg[c].maxAttempts
       /\ Len(sleeps[c]) = Len(outcomes[c]) - 1
  /\ (Len(outcomes[c]) >= 1 /\ IsSuccess(outcomes[c][1])) =>
       /\ pc[c] \in {"reading", "returned"}
       /\ sleeps[c] = <<>>
       /\ pc[c] = "returned" =>
            result[c] = [kind |-> "body", body |-> outcomes[c][1].body, attempt |-> 1]

Scenario3Run(c) ==
  /\ pc[c] = "returned"
  /\ cfg[c].maxAttempts = 4 /\ cfg[c].baseDelay = 1000 /\ cfg[c].backoffMultiplier = 2
  /\ cfg[c].maxDelay = DEFAULT_RETRY_CONFIG.maxDelay
  /\ Statuses(outcomes[c]) = <<503, 503, 503, 200>>

\* C6 as stated: with maxAttempts=4, baseDelay=1000, backoffMultiplier=2
\* (maxDelay at its default), three 503 responses followed by a 200 yield
\* the body after exactly two sleeps, of 1000 and 2000 ms.
C6_Original ==
  \A c \in Calls :
    Scenario3Run(c) => (result[c].kind = "body" /\ sleeps[c] = <<1000, 2000>>)

\* C6 (amended): with the same config (maxDelay at its default 30000), three
\* 503 responses followed by a 200 yield the body of the fourth attempt after
\* exactly three sleeps, of 1000, 2000 and 4000 ms; two sleeps of 1000 and
\* 2000 ms are what two 503 responses followed by a 200 cost.
C6_Amended ==
  \A c \in Calls :
    /\ Scenario3Run(c) =>
         /\ result[c].kind = "body" /\ result[c].attempt = 4
         /\ sleeps[c] = <<1000, 2000, 4000>>
    /\ (/\ pc[c] = "returned"
        /\ cfg[c].maxAttempts = 4 /\ cfg[c].baseDelay = 1000 /\ cfg[c].backoffMultiplier = 2
        /\ cfg[c].maxDelay = DEFAULT_RETRY_CONFIG.maxDelay
        /\ Statuses(outcomes[c]) = <<503, 503, 200>>) =>
         /\ result[c].kind = "body" /\ result[c].attempt = 3
         /\ sleeps[c] = <<1000, 2000>>

C6_Witness == \E c \in Calls : Scenario3Run(c)

\* C7: the k-th sleep of a call (after failed attempt k) lasts
\* min(baseDelay * backoffMultiplier^(k-1), maxDelay); the sleeps of a call
\* never decrease and never exceed maxDelay; a field the caller omits takes
\* the default maxAttempts=2, baseDelay=1500, maxDelay=30000,
\* backoffMultiplier=2 and a field the caller supplies is used as supplied.
C7_Backoff ==
  \A c \in Calls :
    pc[c] # "idle" =>
      /\ \A k \in 1..Len(sleeps[c]) :
           /\ sleeps[c][k] =
                Min(cfg[c].baseDelay * Pow(cfg[c].backoffMultiplier, k - 1), cfg[c].maxDelay)
           /\ sleeps[c][k] <= cfg[c].maxDelay
      /\ \A i, j \in 1..Len(sleeps[c]) : i < j => sleeps[c][i] <= sleeps[c][j]
      /\ \A f \in RetryFields :
           cfg[c][f] = IF f \in reqConfig[c].has THEN reqConfig[c].val[f]
                       ELSE [maxAttempts |-> 2, baseDelay |-> 1500, maxDelay |-> 30000,
                             backoffMultiplier |-> 2][f]

\* a call whose second sleep was cut down to maxDelay
C7_Witness ==
  \E c \in Calls :
    /\ Len(sleeps[c]) >= 2
    /\ sleeps[c][1] < sleeps[c][2]
    /\ sleeps[c][2] = cfg[c].maxDelay
    /\ cfg[c].baseDelay * cfg[c].backoffMultiplier > cfg[c].maxDelay

\* the error apiRequest builds for an attempt aborted by its timer
TimeoutError == ApiClientError(MsgNetwork, NoStatus, Undef, TRUE, TRUE)

\* C10: every attempt in flight has its own 10 s abort timer; an attempt the
\* timer aborts is a retryable failure that uses up one attempt of the same
\* maxAttempts budget: before the last attempt it is followed by a sleep and
\* a retry, on the last attempt it ends the call with a retryable error, and
\* however timeouts mix with other failures the call issues at most
\* maxAttempts fetches.
C10_TimeoutBudget ==
  \A c \in Calls :
    /\ pc[c] = "fetching" => timer[c] = 10000
    /\ pc[c] # "idle" => Len(sent[c]) <= cfg[c].maxAttempts
    /\ \A i \in 1..Len(outcomes[c]) :
         outcomes[c][i].kind = "timeout" =>
           IF i = cfg[c].maxAttempts
             THEN /\ pc[c] = "failed"
                  /\ result[c] = [kind |-> "threw", error |-> TimeoutError]
                  /\ Len(sleeps[c]) = i - 1
             ELSE /\ i < cfg[c].maxAttempts
                  /\ Len(sleeps[c]) >= i
                  /\ pc[c] = "sleeping" \/ Len(sent[c]) > i

\* a call whose last attempt timed out after an earlier failure of another kind
C10_Witness ==
  \E c \in Calls :
    /\ pc[c] = "failed"
    /\ Len(outcomes[c]) = cfg[c].maxAttempts
    /\ Len(outcomes[c]) >= 2
    /\ outcomes[c][Len(outcomes[c])].kind = "timeout"
    /\ outcomes[c][1].kind = "response"
    /\ result[c].error.isRetryable

(***************************************************************************)
(* Properties of the classification (specification SpecClassify)           *)
(***************************************************************************)
RetryableStatuses    == {500, 502, 503, 504, 429, 408}
NonRetryableStatuses == {400, 401, 403, 404, 409}

\* C8: an HTTP failure with status 500, 502, 503, 504, 429 or 408 is
\* retryable and one with status 400, 401, 403, 404 or 409 is not, for the
\* retry loop and for the presentation alike; a failure without a response
\* is retryable for both.
C8_RetryabilityTable ==
  /\ isRetryableError(NoStatus)
  /\ clsInput.cls = "ApiClientError" =>
       /\ (~clsInput.isNetworkError /\ clsInput.status \in RetryableStatuses) =>
            (clsLoop /\ clsView.isRetryable /\ clsInput.isRetryable)
       /\ (~clsInput.isNetworkError /\ clsInput.status \in NonRetryableStatuses) =>
            (~clsLoop /\ ~clsView.isRetryable /\ ~clsInput.isRetryable)
       /\ clsInput.isNetworkError =>
            (clsLoop /\ clsView.isRetryable /\ clsInput.status = NoStatus)

\* a 429 response has been classified
C8_Witness ==
  /\ clsInput.cls = "ApiClientError"
  /\ clsInput.status = 429
  /\ clsLoop /\ clsView.isRetryable

\* an outcome of the "anything else" row: an HTTP failure outside 5xx, 429,
\* 408, 400, 401, 403, 404 and 409, a failure that is no transport failure,
\* or a value that is no ApiClientError and no transport failure
AnythingElse(e) ==
  IF e.cls = "ApiClientError"
    THEN /\ ~e.isNetworkError
         /\ ~(e.status >= 500)
         /\ e.status \notin {429, 408, 400, 401, 403, 404, 409}
    ELSE IF IsErrorInstance(e) THEN ~IsNetworkError(e) ELSE e.cls # Undef

GenericTitles == {"Request Failed", "Unexpected Error", "Unknown Error"}

\* C9 as stated: every outcome of the "anything else" row, a value that is
\* no ApiClientError included, is classified not retryable and gets a generic
\* fallback presentation.
C9_Original ==
  AnythingElse(clsInput) =>
    /\ ~clsLoop
    /\ ~clsView.isRetryable
    /\ clsView.title \in GenericTitles

\* C9 (amended): every outcome of the "anything else" row is not retryable
\* for the retry loop; as an ApiClientError it gets the generic "Request
\* Failed" presentation with isRetryable false, as a value that is no Error
\* the "Unknown Error" presentation with isRetryable false, but as an Error
\* that is no ApiClientError the "Unexpected Error" presentation whose
\* isRetryable flag is true.
C9_Amended ==
  AnythingElse(clsInput) =>
    /\ ~clsLoop
    /\ clsInput.cls = "ApiClientError" =>
         /\ ~clsInput.isRetryable
         /\ clsView.title = "Request Failed" /\ clsView.actionText = "OK"
         /\ ~clsView.isRetryable
    /\ (clsInput.cls # "ApiClientError" /\ IsErrorInstance(clsInput)) =>
         /\ clsView.title = "Unexpected Error" /\ clsView.actionText = "Retry"
         /\ clsView.isRetryable
    /\ ~IsErrorInstance(clsInput) =>
         /\ clsView.title = "Unknown Error"
         /\ ~clsView.isRetryable

\* a 418 response has been classified
C9_Witness ==
  /\ clsInput.cls = "ApiClientError"
  /\ clsInput.status = 418
  /\ clsView.title = "Request Failed"

(***************************************************************************)
(* Properties of the tenant access gate (specification SpecGate)           *)
(***************************************************************************)
Answered == gateResp.status # NoStatus

\* the dealer that owns the officer a lead row refers to, if that officer exists
OwnersOf(lead) == {o.dealer_id : o \in {x \in officers : x.id = lead.officer_id}}

\* C2: a GET that is not public answers with rows of the tenants it names
\* only: every officer row returned has the dealer_id given in the
\* x-dealer-id header or the dealer_id parameter, and every lead row returned
\* belongs to an officer of such a dealer, whatever search / officer_id say.
C2_TenantIsolation ==
  (Answered /\ gateReq.public # "true") =>
    \A T \in Tenants :
      T \notin {gateReq.header, gateReq.dealer_id} =>
        /\ gateReq.route = "officers" => \A r \in gateResp.rows : r.dealer_id # T
        /\ gateReq.route = "leads" => \A r \in gateResp.rows : T \notin OwnersOf(r)

\* a scoped leads query for A answered with rows while B owns a lead as well
C2_Witness ==
  /\ Answered /\ gateReq.route = "leads" /\ gateReq.public # "true"
  /\ gateReq.header = "A" /\ gateReq.dealer_id = Omitted
  /\ gateResp.rows # {}
  /\ \E l \in leads : "B" \in OwnersOf(l)
  /\ \E o \in officers : o.dealer_id = "B"

\* a GET outside public mode that carries no header and no dealer_id
NoTenantRequest ==
  /\ Answered
  /\ gateReq.route \in {"officers", "leads"}
  /\ gateReq.public # "true"
  /\ gateReq.header = Omitted /\ gateReq.dealer_id = Omitted

C4_TwoHopExact ==
  (/\ Answered /\ gateReq.route = "leads" /\ gateReq.public # "true"
   /\ Truthy(DealerIdOf(gateReq)) /\ gateReq.officer_id = {}) =>
    /\ gateResp.status = 200 =>
         gateResp.rows = {l \in leads : DealerIdOf(gateReq) \in OwnersOf(l)}
    /\ (\A o \in officers : o.dealer_id # DealerIdOf(gateReq)) =>
         (gateResp.status = 200 /\ gateResp.rows = {})

(***************************************************************************)
(* Completion of apiRequest (specification Spec)                           *)
(***************************************************************************)
\* C11: a call that has completed has completed in exactly one of two ways:
\* it returned the body of a successful attempt, or it propagated a
\* classified error (an ApiClientError carrying the retryable flag); for no
\* config, maxAttempts <= 0 included, does it complete with neither.
C11_Completion ==
  \A c \in Calls :
    Done(c) =>
      \/ /\ pc[c] = "returned"
         /\ result[c].kind = "body"
         /\ Len(outcomes[c]) >= 1 /\ IsSuccess(outcomes[c][Len(outcomes[c])])
      \/ /\ pc[c] = "failed"
         /\ result[c].kind = "threw"
         /\ result[c].error.cls = "ApiClientError"
         /\ result[c].error.isRetryable \in BOOLEAN

(***************************************************************************)
(* Modes of the gate and record creation (specification SpecGate)          *)
(***************************************************************************)
IsGet == gateReq.route \in {"officers", "leads"}

\* what a public GET is answered with, told from the store and the route's
\* own filters alone: no header and no dealer_id parameter enters it
PublicAnswer(route, search, officerParam) ==
  IF route = "officers"
    THEN IF supabaseConfigured THEN SearchFilter(officers, search) ELSE MockOfficers
    ELSE OfficerParamFilter(leads, officerParam)

\* C12: a GET with public=true is answered from the complete collection
\* whatever the x-dealer-id header and the dealer_id parameter say: every
\* successful answer holds all rows of the table (all rows matching the
\* route's own search / officer_id filter, when one is given), and the only
\* other answer is the 500 of a failed query.
C12_PublicMode ==
  (Answered /\ IsGet /\ gateReq.public = "true") =>
    /\ gateResp.status \in {200, 500}
    /\ gateResp.status = 200 =>
         /\ gateResp.rows = PublicAnswer(gateReq.route, gateReq.search, gateReq.officer_id)
         /\ (gateReq.route = "officers" /\ supabaseConfigured /\ gateReq.search = {}) =>
              gateResp.rows = officers
         /\ (gateReq.route = "leads" /\ gateReq.officer_id = {}) => gateResp.rows = leads

\* a public officers query carrying the header of A was answered with an
\* officer of B
C12_Witness ==
  /\ Answered /\ gateReq.route = "officers" /\ gateReq.public = "true"
  /\ gateReq.header = "A" /\ gateReq.dealer_id = "A"
  /\ \E r \in gateResp.rows : r.dealer_id = "B"
  /\ gateResp.rows = officers

\* the scoped answer for tenant T on the officers route / the leads route
ScopedOfficers(T, search) == SearchFilter({o \in officers : o.dealer_id = T}, search)
ScopedLeads(T, officerParam) ==
  OfficerParamFilter({l \in leads : T \in OwnersOf(l)}, officerParam)

\* the tenant a scoped GET must be resolved to: the header's, the dealer_id
\* parameter's only when no header names one
ResolvedTenant ==
  IF gateReq.header \in Tenants THEN gateReq.header ELSE gateReq.dealer_id

\* C13: a scoped GET is resolved to the tenant of the x-dealer-id header and
\* to the tenant of the dealer_id parameter only when the header is absent;
\* when both name different tenants the answer holds the header's tenant's
\* rows and none of the parameter's tenant, on officers and on leads.
C13_HeaderPrecedence ==
  (/\ Answered /\ IsGet /\ gateReq.public # "true"
   /\ ResolvedTenant \in Tenants /\ gateResp.status = 200) =>
    /\ (gateReq.route = "officers" /\ supabaseConfigured) =>
         gateResp.rows = ScopedOfficers(ResolvedTenant, gateReq.search)
    /\ gateReq.route = "leads" =>
         gateResp.rows \in {ScopedLeads(ResolvedTenant, gateReq.officer_id), {}}
    /\ \A T \in Tenants \ {ResolvedTenant} :
         /\ gateReq.route = "officers" => \A r \in gateResp.rows : r.dealer_id # T
         /\ gateReq.route = "leads" => \A r \in gateResp.rows : T \notin OwnersOf(r)

\* header A and dealer_id B on the leads route, both tenants own leads, and
\* the answer holds rows
C13_Witness ==
  /\ Answered /\ gateReq.route = "leads" /\ gateReq.public # "true"
  /\ gateReq.header = "A" /\ gateReq.dealer_id = "B"
  /\ gateResp.rows # {}
  /\ \E l \in leads : "B" \in OwnersOf(l)

IsPost == gateReq.route = "leads:POST"

\* the step in which the POST handler answers
PostAnswers == gateResp.status = NoStatus /\ gateResp'.status # NoStatus /\ gateReq'.route = "leads:POST"

\* C14: a lead POST whose officer_id matches no officer is answered 400
\* INVALID_OFFICER and leaves the leads table as it was; a POST whose
\* officer_id matches an officer stores exactly one new lead for that officer
\* and is answered 200, whatever x-dealer-id header accompanies it (none, the
\* officer's dealer, another dealer), unless the store itself fails; no POST
\* that is not answered 200 changes the table.
C14_WriteGate ==
  [][PostAnswers =>
       LET ref == {o \in officers : o.id \in gateReq'.officer_id} IN
       /\ (ref = {} /\ gateReq'.fault # "badJson") =>
            /\ gateResp'.status = 400 /\ gateResp'.code = "INVALID_OFFICER"
            /\ leads' = leads
       /\ (ref # {} /\ gateReq'.fault = "none") =>
            /\ gateResp'.status = 200
            /\ leads' = leads \cup gateResp'.rows
            /\ Cardinality(leads') = Cardinality(leads) + 1
            /\ \A r \in gateResp'.rows : r.officer_id \in gateReq'.officer_id
       /\ gateResp'.status # 200 => leads' = leads
       /\ officers' = officers
    ]_vars

\* a lead was created for an officer of A by a POST carrying the header of B
C14_Witness ==
  /\ Answered /\ IsPost
  /\ gateReq.header = "B" /\ gateReq.fault = "none"
  /\ gateResp.status = 200
  /\ \E r \in gateResp.rows : r \in leads /\ OwnersOf(r) = {"A"}

(***************************************************************************)
(* Specification of the phone normalizer                                   *)
(***************************************************************************)
InitPhone ==
  /\ InitRetry
  /\ nodeEnv = "development"
  /\ storedDealer = Omitted
  /\ InitCls
  /\ InitHookIdle
  /\ InitGateEmpty
  /\ InitLogin
  /\ currentOfficer = {}
  /\ phoneOut = {}
  /\ phoneTwice = {}
  /\ phoneAlt = {}
  /\ \/ /\ phoneSub \in Subscribers
        /\ phoneShape \in PhoneShapes
        /\ phoneIn = WriteAs(phoneSub, phoneShape)
     \/ /\ phoneSub = <<>>
        /\ phoneShape = "free"
        /\ phoneIn \in FreeTexts

NextPhone ==
  \/ NormalizePhone /\ UNCHANGED <<retryVars, clsVars, gateVars, loginVars, hookVars>>
  \/ NormalizeAgain /\ UNCHANGED <<retryVars, clsVars, gateVars, loginVars, hookVars>>
  \/ NormalizeElsewhere /\ UNCHANGED <<retryVars, clsVars, gateVars, hookVars>>

SpecPhone == InitPhone /\ [][NextPhone]_vars

(***************************************************************************)
(* Properties of the phone normalizer (specification SpecPhone)            *)
(***************************************************************************)
\* the canonical string of a subscriber number
Canonical(sub) == <<"+", "2", "5", "5">> \o sub

\* C15: each of the four supported shapes of one 9-digit subscriber number
\* (0-prefixed, bare, 255-prefixed, +255-prefixed) normalizes to the same
\* canonical string, "+255" followed by the subscriber number.
C15_PhoneEquivalence ==
  (phoneShape \in PhoneShapes /\ phoneOut # {}) => phoneOut = {Canonical(phoneSub)}

\* C16: normalizing the result of the normalizer gives that result again,
\* for every input in one of the four supported shapes (and for free text).
C16_PhoneIdempotence ==
  phoneTwice # {} => phoneTwice = phoneOut

\* the result of 714276444 written bare has been normalized again
C16_Witness ==
  /\ phoneShape = "bare"
  /\ phoneIn = <<"7", "1", "4", "2", "7", "6", "4", "4", "4">>
  /\ phoneOut = {<<"+", "2", "5", "5", "7", "1", "4", "2", "7", "6", "4", "4", "4">>}
  /\ phoneTwice = phoneOut

\* C17: for every input string, free text such as "abc123", text without
\* digits and the empty string included, the normalizer returns a string:
\* a plus sign, then the country calling code 255, then digits only.
C17_PhoneTotal ==
  phoneOut # {} =>
    \A o \in phoneOut :
      /\ Len(o) >= 4
      /\ SubSeq(o, 1, 4) = <<"+", "2", "5", "5">>
      /\ \A i \in 5..Len(o) : o[i] \in {"0", "1", "2", "3", "4", "5", "6", "7", "8", "9"}

\* "abc123" has been normalized
C17_Witness ==
  /\ phoneIn = <<"a", "b", "c", "1", "2", "3">>
  /\ phoneOut = {<<"+", "2", "5", "5", "1", "2", "3">>}

(***************************************************************************)
(* Specification of the session context with one apiRequest call pending   *)
(***************************************************************************)
\* retry configurations and fetch outcomes of the call
SessionConfigs == {rc \in PartialConfigs : rc.has = {"maxAttempts"}}
SessionResponses ==
  [status : OkStatuses, body : {"json"}] \cup [status : {404, 503}, body : {"notJson"}]

\* logins of the session specification: each dealer by phone, an unknown e-mail
SessionIdentifiers ==
  {WriteAs(sub, "local0") : sub \in TestSubscribers} \cup {<<"z", "@", "x">>}

InitSession ==
  /\ InitRetry
  /\ nodeEnv = "development"
  /\ storedDealer \in StoredDealerValues
  /\ InitCls
  /\ InitHookIdle
  /\ InitGateEmpty
  /\ InitAuthIdle

NextSession ==
  \/ \E u \in Urls, rc \in SessionConfigs :
       ApiRequest(FirstCall, u, rc) /\ UNCHANGED <<clsVars, gateVars, authVars, loginVars, hookVars>>
  \/ \E r \in SessionResponses :
       FetchResolves(FirstCall, r) /\ UNCHANGED <<clsVars, gateVars, authVars, loginVars, hookVars>>
  \/ FetchRejects(FirstCall, TypeErr) /\ UNCHANGED <<clsVars, gateVars, authVars, loginVars, hookVars>>
  \/ TimeoutFires(FirstCall) /\ UNCHANGED <<clsVars, gateVars, authVars, loginVars, hookVars>>
  \/ SleepEnds(FirstCall) /\ UNCHANGED <<clsVars, gateVars, authVars, loginVars, hookVars>>
  \/ \E id \in SessionIdentifiers :
       LoginDealer(id, "auth", FALSE) /\ UNCHANGED <<clsVars, gateVars, hookVars>>
  \/ LogoutDealer /\ UNCHANGED <<clsVars, gateVars, loginVars, hookVars>>
  \/ \E found \in OfficerSearchResults :
       OfficerLogin(found) /\ UNCHANGED <<clsVars, gateVars, loginVars, hookVars>>
  \/ OfficerLogout /\ UNCHANGED <<clsVars, gateVars, loginVars, hookVars>>

SpecSession == InitSession /\ [][NextSession]_vars

(***************************************************************************)
(* Properties of the session context (specification SpecSession)           *)
(***************************************************************************)
\* C18: the session context holds at most one tenant identity (key 'dealer')
\* and at most one officer identity (key 'currentOfficer'), and no step
\* touches both: a dealer login or logout leaves the officer identity as it
\* was, an officer login or logout leaves the tenant identity as it was.
C18_SessionOrthogonal ==
  [][/\ storedDealer' \in {Omitted, "no-id", "corrupt", "A", "B"}
     /\ Cardinality(currentOfficer') <= 1
     /\ storedDealer' # storedDealer => currentOfficer' = currentOfficer
     /\ currentOfficer' # currentOfficer => storedDealer' = storedDealer
    ]_vars

\* an officer is logged in while the dealer has logged out after a call of
\* the dealer's session was sent
C18_Witness ==
  /\ storedDealer = Omitted
  /\ currentOfficer # {}
  /\ \E c \in Calls : Len(sent[c]) >= 1 /\ sent[c][1] = "A"

InFlightFetches(c) == Len(sent[c]) - Len(outcomes[c])

\* the identity a stored value stands for
IdentityOf(stored) == IF stored \in Tenants THEN stored ELSE Omitted

InitLoginSpec ==
  /\ InitRetry
  /\ nodeEnv = "development"
  /\ storedDealer \in StoredDealerValues
  /\ InitCls
  /\ InitHookIdle
  /\ InitGateEmpty
  /\ InitAuthIdle

NextLogin ==
  \/ \E id \in LoginIdentifiers, impl \in AuthCopies, dbError \in BOOLEAN :
       LoginDealer(id, impl, dbError) /\ UNCHANGED <<clsVars, gateVars, hookVars>>
  \/ LogoutDealer /\ UNCHANGED <<clsVars, gateVars, loginVars, hookVars>>

SpecLogin == InitLoginSpec /\ [][NextLogin]_vars

(***************************************************************************)
(* Properties of dealer login (specification SpecLogin)                    *)
(***************************************************************************)
\* C21: a loginDealer call that matches no dealer sends exactly one query
\* to the dealers table, fails with the error 'Dealer not found' and leaves
\* the stored tenant identity as it was: nothing is written, nothing cleared.
C21_LoginNotFound ==
  [][(loginVars' # loginVars /\ loginResult'.kind = "error") =>
       /\ Len(lookups') = 1
       /\ ~loginCall'.dbError => loginResult'.message = "Dealer not found"
       /\ storedDealer' = storedDealer
       /\ dealers' = dealers
    ]_vars

\* an unknown e-mail address was refused while dealer A stayed logged in
C21_Witness ==
  /\ loginCall.identifier = <<"z", "@", "x">>
  /\ loginResult = [kind |-> "error", message |-> "Dealer not found"]
  /\ Len(lookups) = 1
  /\ storedDealer = "A"

\* the subscriber number a canonical phone ends with
SubscriberOf(phone) == SubSeq(phone, 5, Len(phone))

\* C24: loginDealer called with the e-mail address of a stored dealer looks
\* the dealer up by e-mail and resolves that dealer; called with a stored
\* dealer's phone number in one of the supported shapes it looks the dealer
\* up by the canonical phone and resolves that dealer.
C24_PhoneOrEmail ==
  (loginResult.kind # "none" /\ ~loginCall.dbError) =>
    \A d \in dealers :
      /\ loginCall.identifier = d.email =>
           /\ lookups = <<[column |-> "email", key |-> d.email]>>
           /\ loginResult = [kind |-> "dealer", id |-> d.id]
      /\ (\E shape \in PhoneShapes :
            loginCall.identifier = WriteAs(SubscriberOf(d.phone), shape)) =>
           /\ lookups = <<[column |-> "phone", key |-> d.phone]>>
           /\ loginResult = [kind |-> "dealer", id |-> d.id]

(***************************************************************************)
(* The normalizer against its reference and its copies (SpecPhone)         *)
(***************************************************************************)
\* step 1 of the reference: the digits of the input, in order
RECURSIVE RefDigits(_)
RefDigits(str) ==
  IF str = <<>> THEN <<>>
  ELSE IF Head(str) \in {"0", "1", "2", "3", "4", "5", "6", "7", "8", "9"}
    THEN <<Head(str)>> \o RefDigits(Tail(str))
    ELSE RefDigits(Tail(str))

\* steps 2 to 5 of the reference, in priority order
RefPrefixed(digits) ==
  IF Len(digits) >= 1 /\ digits[1] = "0" THEN <<"2", "5", "5">> \o Tail(digits)
  ELSE IF Len(digits) >= 3 /\ SubSeq(digits, 1, 3) = <<"2", "5", "5">> THEN digits
  ELSE IF Len(digits) = 9 THEN <<"2", "5", "5">> \o digits
  ELSE <<"2", "5", "5">> \o digits

\* C25: for every input the normalizer returns what the six steps give:
\* strip the non-digits; digits starting with 0 have that digit replaced by
\* 255; else digits starting with 255 stay as they are, also when there are
\* nine of them; else nine digits get 255 in front; else any digits get 255
\* in front; last, a plus sign is put in front.
C25_SixSteps ==
  phoneOut # {} =>
    /\ phoneOut = {<<"+">> \o RefPrefixed(RefDigits(phoneIn))}
    /\ (Len(phoneIn) = 9 /\ SubSeq(phoneIn, 1, 3) = <<"2", "5", "5">>
         /\ RefDigits(phoneIn) = phoneIn) => phoneOut = {<<"+">> \o phoneIn}

\* nine digits that start with 255 were taken as carrying the country code
C25_Witness ==
  /\ phoneIn = <<"2", "5", "5", "2", "7", "6", "4", "4", "4">>
  /\ phoneOut = {<<"+", "2", "5", "5", "2", "7", "6", "4", "4", "4">>}

\* C29: for every input the canonicalization inlined in the officer login,
\* normalizePhoneNumber of auth.ts and the normalizer of its variant copy
\* (which lower-cases and trims the text first) give the same canonical key.
C29_SameNormalizer ==
  (phoneOut # {} /\ phoneAlt # {}) =>
    \A a \in phoneAlt : phoneOut = {a.officer} /\ phoneOut = {a.variant}

\* a text with blanks, an upper-case letter and a leading 0 went through all
\* three copies
C29_Witness ==
  /\ phoneIn = <<" ", "A", "0", "9">>
  /\ phoneOut = {<<"+", "2", "5", "5", "9">>}
  /\ phoneAlt = {[officer |-> <<"+", "2", "5", "5", "9">>, variant |-> <<"+", "2", "5", "5", "9">>]}

(***************************************************************************)
(* Agreement of the two classifiers (specification SpecClassify)           *)
(***************************************************************************)
\* C26: for every ApiClientError apiRequest can propagate (a non-ok response
\* of any status, a transport failure, a timeout, an unexpected failure that
\* is no network failure) the isRetryable flag of its presentation equals
\* the error's own isRetryable flag, the one the retry loop acted on.
C26_ClassifiersAgree ==
  clsInput.cls = "ApiClientError" =>
    /\ clsView.isRetryable = clsInput.isRetryable
    /\ clsLoop = clsInput.isRetryable
    /\ clsView.actionText = "OK" => ~clsInput.isRetryable

\* a 408 response, which the presentation has no case of its own for
C26_Witness ==
  /\ clsInput.cls = "ApiClientError"
  /\ clsInput.status = 408
  /\ clsView.title = "Request Failed"
  /\ clsView.isRetryable /\ clsInput.isRetryable

(***************************************************************************)
(* The error of a call that failed after retries (specification Spec)      *)
(***************************************************************************)
\* C27: a call that fails after more than one attempt propagates the
\* classification of its last attempt's outcome, not of an earlier one: the
\* status and flag of the last response, the network error of a last attempt
\* that timed out or was rejected, the unexpected error of a last body that
\* did not parse.
C27_FinalAttemptError ==
  \A c \in Calls :
    (pc[c] = "failed" /\ Len(outcomes[c]) >= 2) =>
      LET last == outcomes[c][Len(outcomes[c])]
          err == result[c].error IN
      /\ result[c].kind = "threw"
      /\ (last.kind = "response" /\ last.status \notin OkStatuses) =>
           /\ err.cls = "ApiClientError"
           /\ err.status = last.status
           /\ ~err.isNetworkError
           /\ err.isRetryable = (last.status >= 500 \/ last.status \in {429, 408})
      /\ last.kind = "timeout" =>
           err = ApiClientError(MsgNetwork, NoStatus, Undef, TRUE, TRUE)
      /\ last.kind = "rejected" =>
           /\ err.cls = "ApiClientError" /\ err.status = NoStatus
           /\ last.body = "TypeError" => (err.isNetworkError /\ err.isRetryable)
      /\ (last.kind = "response" /\ last.status \in OkStatuses) =>
           /\ last.body = "jsonSyntaxError" =>
                err = ApiClientError(MsgUnexpected, NoStatus, Undef, FALSE, FALSE)
           /\ last.body = "jsonTypeError" =>
                err = ApiClientError(MsgNetwork, NoStatus, Undef, TRUE, TRUE)
           /\ last.body = "textTypeError" => err = TypeErr

\* a 503 followed by a 404 ended the call with the non-retryable 404
C27_Witness ==
  \E c \in Calls :
    /\ pc[c] = "failed"
    /\ Statuses(outcomes[c]) = <<503, 404>>
    /\ cfg[c].maxAttempts > 2
    /\ result[c].error.status = 404
    /\ ~result[c].error.isRetryable


(***************************************************************************)
(* Specification of overlapping apiRequest calls                           *)
(***************************************************************************)
\* retry budgets of the overlapping calls
ConcurrentConfigs ==
  {[has |-> {"maxAttempts"},
    val |-> [DEFAULT_RETRY_CONFIG EXCEPT !.maxAttempts = m]] : m \in 0..2}

\* what the server answers the overlapping calls with
ConcurrentResponses ==
  [status : OkStatuses, body : {"json", "text"}] \cup [status : {404, 503}, body : {"notJson"}]

\* calls of other callers that are in flight when the first call begins and
\* stay in flight: none, or as many as the warning threshold to one url
BackgroundLoads ==
  {[u \in Urls |-> 0],
   [u \in Urls |-> IF u = "/api/officers" THEN InFlightWarnThreshold ELSE 0]}

InitConcurrent ==
  /\ InitCalls
  /\ pendingElsewhere \in BackgroundLoads
  /\ inFlightMap = pendingElsewhere
  /\ warnings = 0
  /\ nodeEnv = "development"
  /\ storedDealer = "A"
  /\ InitCls
  /\ InitHookIdle
  /\ InitGateEmpty
  /\ InitAuthIdle

NextConcurrent ==
  \/ \E c \in Calls, u \in Urls, rc \in ConcurrentConfigs :
       ApiRequest(c, u, rc) /\ UNCHANGED <<clsVars, gateVars, authVars, loginVars, hookVars>>
  \/ \E c \in Calls, r \in ConcurrentResponses :
       FetchResolves(c, r) /\ UNCHANGED <<clsVars, gateVars, authVars, loginVars, hookVars>>
  \/ \E c \in Calls :
       TextSettles(c) /\ UNCHANGED <<clsVars, gateVars, authVars, loginVars, hookVars>>
  \/ \E c \in Calls :
       FetchRejects(c, TypeErr) /\ UNCHANGED <<clsVars, gateVars, authVars, loginVars, hookVars>>
  \/ \E c \in Calls :
       SleepEnds(c) /\ UNCHANGED <<clsVars, gateVars, authVars, loginVars, hookVars>>

SpecConcurrent == InitConcurrent /\ [][NextConcurrent]_vars

(***************************************************************************)
(* Properties of overlapping calls (specification SpecConcurrent)          *)
(***************************************************************************)
\* fetch invocations of all calls together
RECURSIVE FetchesOf(_)
FetchesOf(cs) ==
  IF cs = {} THEN 0
  ELSE LET c == CHOOSE x \in cs : TRUE IN Len(sent[c]) + FetchesOf(cs \ {c})

\* C22: overlapping calls are not deduplicated and the in-flight counter
\* never alters control flow: every call that begins with a budget of at
\* least one attempt sends its own fetches, one per outcome it has seen plus
\* the one it waits for; when all calls succeed at their first attempt there
\* are exactly as many fetches as calls; and two finished calls with the same
\* configuration and the same outcomes issued the same fetches, slept the same
\* delays and settled with the same result, whatever their url's counter was.
C22_NotDeduplicated ==
  /\ \A c \in Calls :
       (pc[c] # "idle" /\ cfg[c].maxAttempts >= 1) =>
         /\ Len(sent[c]) >= 1
         /\ Len(sent[c]) = Len(outcomes[c]) + (IF pc[c] = "fetching" THEN 1 ELSE 0)
  /\ (\A c \in Calls : pc[c] = "returned" /\ Len(outcomes[c]) = 1) =>
       FetchesOf(Calls) = Cardinality(Calls)
  /\ \A c, d \in Calls :
       (Done(c) /\ Done(d) /\ cfg[c] = cfg[d] /\ outcomes[c] = outcomes[d]) =>
         /\ sent[c] = sent[d]
         /\ sleeps[c] = sleeps[d]
         /\ result[c] = result[d]

\* two calls to one url are in flight together above the warning threshold,
\* both warned about, each with a fetch of its own
C22_Witness ==
  \E c, d \in Calls :
    /\ c # d
    /\ reqUrl[c] = reqUrl[d]
    /\ pc[c] = "fetching" /\ pc[d] = "sleeping"
    /\ Len(sent[c]) = 1 /\ Len(sent[d]) = 1
    /\ inFlightMap[reqUrl[c]] > InFlightWarnThreshold
    /\ warnings >= 2

\* calls to u that have begun and whose promise has not settled
PendingCalls(u) ==
  {c \in Calls : reqUrl[c] = u /\ pc[c] \in {"fetching", "sleeping", "reading"}}

\* C28: for every url inFlightMap[url] is never negative and equals the
\* number of apiRequest calls to that url that have started and not yet
\* completed (backoff sleeps included), so it is 0 once all calls completed.
C28_InFlightCount ==
  \A u \in Urls :
    /\ inFlightMap[u] >= 0
    /\ inFlightMap[u] = pendingElsewhere[u] + Cardinality(PendingCalls(u))


(***************************************************************************)
(* Specification of the writes to the officers and leads tables            *)
(***************************************************************************)
\* the first officer id is unused or stored under a dealer, with or without
\* its lead; every other id is still to be generated
InitOwnership ==
  /\ InitRetry
  /\ nodeEnv = "development"
  /\ storedDealer = Omitted
  /\ InitCls
  /\ InitHookIdle
  /\ supabaseConfigured \in BOOLEAN
  /\ \E own \in SUBSET Tenants, present \in SUBSET {j \in LeadIds : j = 1} :
       /\ Cardinality(own) <= 1
       /\ present # {} => own # {}
       /\ officers = IF supabaseConfigured THEN {OfficerRow(1, d) : d \in own} ELSE {}
       /\ leads = IF supabaseConfigured THEN {LeadRow(j) : j \in present} ELSE {}
  /\ created = CreatedWith(officers, leads)
  /\ gateReq = [route |-> Undef]
  /\ gateResp = [status |-> NoStatus]
  /\ InitAuthIdle

NextOwnership ==
  \/ \E body \in OfficerBodies, fault \in WriteFaults :
       PostOfficer(body, fault) /\ UNCHANGED <<retryVars, clsVars, authVars, loginVars, hookVars>>
  \/ \E id \in OfficerIds, body \in PutBodies, fault \in {"none", "store"} :
       PutOfficer(id, body, fault) /\ UNCHANGED <<retryVars, clsVars, authVars, loginVars, hookVars>>
  \/ \E id \in OfficerIds, fault \in {"none", "store"} :
       DeleteOfficer(id, fault) /\ UNCHANGED <<retryVars, clsVars, authVars, loginVars, hookVars>>
  \/ \E req \in {r \in LeadPosts : r.header = Omitted}, fault \in {"none", "insert"} :
       PostLead(req, fault) /\ UNCHANGED <<retryVars, clsVars, authVars, loginVars, hookVars>>
  \/ GateDeliver /\ UNCHANGED <<retryVars, clsVars, authVars, loginVars, hookVars>>

SpecOwnership == InitOwnership /\ [][NextOwnership]_vars

(***************************************************************************)
(* Properties of the writes (specification SpecOwnership)                  *)
(***************************************************************************)
\* C23: ownership links are immutable and dealers are never written: after
\* any sequence of officer create, update and delete requests and lead
\* create requests, every stored officer has the dealer_id it was created
\* with, every stored lead has the officer_id it was created with, and the
\* dealers table is as it was.
C23_OwnershipImmutable ==
  /\ \A o \in officers : created.officer[o.id] = {o.dealer_id}
  /\ \A l \in leads : created.lead[l.id] = {l.officer_id}
  /\ dealers = DealerRows

\* an officer created by a request has been updated by another, while an
\* officer with a lead has been deleted
C23_Witness ==
  /\ \E o \in officers :
       /\ o.name \in WriteNames
       /\ o \notin {OfficerRow(o.id, o.dealer_id)}
       /\ o.dealer_id \in Tenants
  /\ \E i \in OfficerIds :
       /\ created.officer[i] # {}
       /\ \A o \in officers : o.id # i
       /\ \E j \in LeadIds : created.lead[j] = {i} /\ \A l \in leads : l.id # j
  /\ \E l \in leads : created.lead[l.id] = {l.officer_id}


(***************************************************************************)
(* Specification of the useApi hook                                        *)
(***************************************************************************)
InitHookSpec ==
  /\ InitRetry
  /\ nodeEnv = "development"
  /\ storedDealer = Omitted
  /\ InitCls
  /\ InitUseApi
  /\ hookOptions \in [onSuccess : CallbackKinds, onError : CallbackKinds]
  /\ InitGateEmpty
  /\ InitAuthIdle

NextHook ==
  \/ \E e \in Execs :
       Execute(e) /\ UNCHANGED <<retryVars, clsVars, gateVars, authVars, loginVars>>
  \/ \E e \in Execs, data \in ApiResults :
       ApiCallResolves(e, data) /\ UNCHANGED <<retryVars, clsVars, gateVars, authVars, loginVars>>
  \/ \E e \in Execs, error \in ApiFailures :
       ApiCallRejects(e, error) /\ UNCHANGED <<retryVars, clsVars, gateVars, authVars, loginVars>>
  \/ Reset /\ UNCHANGED <<retryVars, clsVars, gateVars, authVars, loginVars>>

SpecHook == InitHookSpec /\ [][NextHook]_vars

(***************************************************************************)
(* Properties of the useApi hook (specification SpecHook)                  *)
(***************************************************************************)
\* the step in which execute call e ends
ExecuteEnds(e) == execPc[e] = "pending" /\ execPc'[e] # "pending"

\* what C30 says of the step that ends call e
C30_Completion(e) ==
  /\ execOutcome'[e].kind = "resolved" =>
       /\ execReturn'[e] = {execOutcome'[e].value}
       /\ state'.data = {execOutcome'[e].value}
       /\ state'.error = {}
       /\ ~state'.loading
  /\ execOutcome'[e].kind = "rejected" =>
       /\ execReturn'[e] = {}
       /\ state'.error = {getUserFriendlyError(execOutcome'[e].value)}
       /\ ~state'.loading
       /\ state'.data = state.data

\* C30: execute never throws to its caller; a call that completes
\* successfully leaves data = its result, error = null and loading = false; a
\* call that fails returns null, leaves the classified user-friendly error,
\* loading = false and the data held before; and in any interleaving of
\* overlapping execute calls loading is true while some call is pending.
C30_HookConsistent ==
  /\ [](\A e \in Execs : execPc[e] # "threw")
  /\ []((\E e \in Execs : execPc[e] = "pending") => state.loading)
  /\ [][\A e \in Execs : ExecuteEnds(e) => C30_Completion(e)]_vars

====
